---------------------------- MODULE Spec2Model ----------------------------
(***************************************************************************)
(* The marketplace packaging pipeline of scripts/marketplace:              *)
(*   generate_plugin.py, generate_bundle.py, generate_marketplace.py,      *)
(*   validate_marketplace.py, fix_plugin_manifests.py and                  *)
(*   fix_agent_command_paths.py.                                           *)
(*                                                                         *)
(* Every script is a one-shot, single-threaded process, so one run of a    *)
(* script is one action.  The state is the directory tree the scripts read *)
(* and write, plus the outcome of the last process that ran.               *)
(*                                                                         *)
(* Python values are modelled as tagged records, one field name per JSON   *)
(* type, so that isinstance() is a test of the record's domain:            *)
(*   [str |-> <<tokens>>]  a string, as a sequence of tokens: "." and "/"  *)
(*                         are tokens of their own, every other token is a *)
(*                         run of characters that neither starts with "."  *)
(*                         or "/" nor contains "/";                        *)
(*   [obj |-> f]           a JSON object, f a function from keys;          *)
(*   [arr |-> <<...>>]     a JSON array;                                   *)
(*   [num |-> n], [bool |-> b], [null |-> TRUE].                           *)
(***************************************************************************)
EXTENDS Integers, Sequences, FiniteSets, TLC

VARIABLES
    skills,       \* repo_root/.claude/skills: skill directory name -> its content
    plugins,      \* repo_root/.claude/plugins: <<kind, name>> -> plugin directory
    rplugins,     \* repo_root/plugins: <<kind, name>> -> plugin directory
    marketplace,  \* repo_root/.claude-plugin/marketplace.json
    run,          \* the last process: script, argument, exit code, what it recorded
    fixed,        \* the fixer scripts that ran to their end since a generator last ran
    fx            \* one plugin directory under repair, for the two fixers taken alone

vars == <<skills, plugins, rplugins, marketplace, run, fixed, fx>>

-----------------------------------------------------------------------------
(* Python strings and JSON values *)

Str(s) == [str |-> <<s>>]
Chars(seq) == [str |-> seq]
Obj(f) == [obj |-> f]
Arr(seq) == [arr |-> seq]
Num(n) == [num |-> n]
Bool(b) == [bool |-> b]
None == [null |-> TRUE]

IsStr(v) == DOMAIN v = {"str"}
IsDict(v) == DOMAIN v = {"obj"}
IsList(v) == DOMAIN v = {"arr"}

EmptyFn == [k \in {} |-> None]

\* d.get(key, default) of a dict d (a function from keys)
Get(d, key, default) == IF key \in DOMAIN d THEN d[key] ELSE default

\* del d[key]
Del(d, key) == [k \in DOMAIN d \ {key} |-> d[k]]

\* d[key] = value
Put(d, key, value) == [k \in DOMAIN d \cup {key} |-> IF k = key THEN value ELSE d[k]]

\* s.startswith("./") on the tokens of s
StartsWithDotSlash(t) == Len(t) >= 2 /\ t[1] = "." /\ t[2] = "/"

\* s.endswith("/")
EndsWithSlash(t) == Len(t) >= 1 /\ t[Len(t)] = "/"

\* s.lstrip("./"): drop every leading "." and "/"
RECURSIVE LStripDotSlash(_)
LStripDotSlash(t) ==
    IF t # <<>> /\ t[1] \in {".", "/"} THEN LStripDotSlash(Tail(t)) ELSE t

\* the elements of a sequence
Range(seq) == {seq[i] : i \in DOMAIN seq}

-----------------------------------------------------------------------------
(* Files and directories *)

\* a file name: Path.stem and the suffix after the last "."
File(stem, ext) == [stem |-> stem, ext |-> ext]
FileName(f) == f.stem \o "." \o f.ext

\* dir.glob("*.<ext>")
Glob(files, ext) == {f \in files : f.ext = ext}

\* the state of one file holding JSON
NoFile == [absent |-> TRUE]
BadJson == [invalid |-> TRUE]
Json(v) == [json |-> v]
FileExists(f) == DOMAIN f # {"absent"}
IsJson(f) == DOMAIN f = {"json"}

\* a plugin directory that does not exist
NoDir ==
    [exists |-> FALSE, claudePlugin |-> FALSE, manifest |-> NoFile,
     skillsDir |-> FALSE, skillDirs |-> {},
     commandsDir |-> FALSE, commands |-> {},
     agentsDir |-> FALSE, agents |-> {}]


-----------------------------------------------------------------------------
(* The skills root, repo_root/.claude/skills *)

\* the directory names that may exist under the skills root
SkillDirs == {"gsap-scrolltrigger", "threejs-webgl"}

\* the skills of SKILL_CATEGORIES the model takes: SkillDirs, and one skill
\* each of the categories 2d-graphics, 3d-authoring and design
CategorizedSkills ==
    SkillDirs \cup {"pixijs-2d", "blender-web-pipeline", "modern-web-design"}

\* SKILL_CATEGORIES, restricted to CategorizedSkills
SKILL_CATEGORIES ==
    [s \in CategorizedSkills |->
        CASE s = "threejs-webgl" ->
                [category |-> "3d-graphics",
                 tags |-> <<"webgl", "threejs", "3d", "graphics", "webgpu">>]
          [] s = "gsap-scrolltrigger" ->
                [category |-> "animation",
                 tags |-> <<"gsap", "animation", "scroll", "scrolltrigger">>]
          [] s = "pixijs-2d" ->
                [category |-> "2d-graphics",
                 tags |-> <<"pixijs", "2d", "webgl", "canvas", "sprites">>]
          [] s = "blender-web-pipeline" ->
                [category |-> "3d-authoring",
                 tags |-> <<"blender", "gltf", "export", "pipeline", "3d">>]
          [] s = "modern-web-design" ->
                [category |-> "design",
                 tags |-> <<"design", "trends", "ux", "web">>]]

\* the lines of a SKILL.md: a "---" line, a "key: value" line, any other line
Delim == [delim |-> TRUE]
KV(k, v) == [key |-> k, value |-> v]
Text(t) == [text |-> t]
IsDelim(l) == DOMAIN l = {"delim"}
IsKV(l) == DOMAIN l = {"key", "value"}

\* a skill directory that does not exist
NoSkill == [exists |-> FALSE, skillMd |-> NoFile, scriptsDir |-> FALSE, files |-> {}]

\* a skill directory: its SKILL.md (NoFile, or its lines) and its scripts/
Skill(md, hasScripts, files) ==
    [exists |-> TRUE, skillMd |-> md, scriptsDir |-> hasScripts, files |-> files]

\* the outcome of a call: a value, or the exception it raised
Ok(v) == [ok |-> v]
Raises(e) == [raises |-> e]
IsOk(r) == DOMAIN r = {"ok"}

\* re.match(r'^---\s*\n(.*?)\n---\s*\n', content, re.DOTALL): the index of the
\* line that closes the frontmatter, 0 when there is no match
FrontmatterEnd(lines) ==
    IF Len(lines) >= 3 /\ IsDelim(lines[1])
          /\ \E j \in 3..Len(lines) : IsDelim(lines[j])
    THEN CHOOSE j \in 3..Len(lines) :
            IsDelim(lines[j]) /\ \A i \in 3..(j - 1) : ~IsDelim(lines[i])
    ELSE 0

\* the metadata dict built from the "key: value" lines; a later line of the
\* same key overwrites an earlier one
ParseYaml(lines) ==
    LET keys == {lines[i].key : i \in {j \in DOMAIN lines : IsKV(lines[j])}}
        last(k) == CHOOSE i \in DOMAIN lines :
                      /\ IsKV(lines[i]) /\ lines[i].key = k
                      /\ \A j \in DOMAIN lines :
                            (IsKV(lines[j]) /\ lines[j].key = k) => j <= i
    IN [k \in keys |-> lines[last(k)].value]

\* _load_skill_metadata had it parsed SKILL.md without the frontmatter match
LoadSkillMetadataUnmatched(skill) ==
    IF ~skill.exists \/ ~FileExists(skill.skillMd)
    THEN Raises("FileNotFoundError")
    ELSE Ok(ParseYaml(skill.skillMd.lines))

\* PluginGenerator._load_skill_metadata
LoadSkillMetadata(skill) ==
    IF ~skill.exists \/ ~FileExists(skill.skillMd)
    THEN Raises("FileNotFoundError")
    ELSE LET lines == skill.skillMd.lines
             end == FrontmatterEnd(lines)
         IN IF end = 0 THEN Raises("ValueError")
            ELSE Ok(ParseYaml(SubSeq(lines, 2, end - 1)))

-----------------------------------------------------------------------------
(* generate_plugin.py *)

\* PluginGenerator._create_plugin_structure: mkdir(parents=True, exist_ok=True)
\* of the plugin directory and its four sub-directories
CreatePluginStructure(dir) ==
    [dir EXCEPT !.exists = TRUE, !.claudePlugin = TRUE, !.skillsDir = TRUE,
                !.commandsDir = TRUE, !.agentsDir = TRUE]

\* the name field had it been taken from the frontmatter, as skill_title is
ManifestNameFromFrontmatter(skill_name, metadata) ==
    Str(Get(metadata, "name", skill_name))

\* the manifest's name field
ManifestName(skill_name, metadata) == Str(skill_name)

\* the manifest dict PluginGenerator._generate_manifest builds
PluginManifest(skill_name, metadata) ==
    LET skill_title == Get(metadata, "name", skill_name)
        description ==
            Get(metadata, "description", skill_title \o " skill for Claude Code")
        meta == IF skill_name \in DOMAIN SKILL_CATEGORIES
                THEN SKILL_CATEGORIES[skill_name]
                ELSE [category |-> "general", tags |-> <<skill_name>>]
    IN [name |-> ManifestName(skill_name, metadata),
        version |-> Str("1.0.0"),
        description |-> Str(description),
        author |-> Str("Claude Design Skillstack"),
        license |-> Str("Apache-2.0"),
        homepage |-> Str("https://github.com/freshtechbro/claudedesignskills"),
        repository |->
            Obj([type |-> Str("git"),
                 url |-> Str("https://github.com/freshtechbro/claudedesignskills.git")]),
        keywords |-> Arr([i \in DOMAIN meta.tags |-> Str(meta.tags[i])]),
        category |-> Str(meta.category),
        skills |-> Chars(<<"skills", "/">>),
        commands |-> Chars(<<"commands", "/">>),
        agents |-> Chars(<<"agents", "/">>)]

\* _generate_manifest had it kept the keys of a plugin.json already there
GenerateManifestMerged(skill_name, metadata, dir) ==
    [dir EXCEPT !.manifest =
        IF IsJson(dir.manifest)
        THEN Json(Obj(dir.manifest.json.obj @@ PluginManifest(skill_name, metadata)))
        ELSE Json(Obj(PluginManifest(skill_name, metadata)))]

\* PluginGenerator._generate_manifest: open(manifest_path, 'w') and json.dump
GenerateManifest(skill_name, metadata, dir) ==
    [dir EXCEPT !.manifest = Json(Obj(PluginManifest(skill_name, metadata)))]

\* PluginGenerator._copy_skill_content: rmtree of skills/<skill>, then copytree
CopySkillContent(skill_name, dir) ==
    [dir EXCEPT !.skillDirs = @ \cup {skill_name}]

\* the command files had _generate_commands tested scripts_dir.exists() alone
CommandFilesOfAnyScriptsDir(skill) ==
    IF skill.scriptsDir
    THEN {File(script_file.stem, "md") : script_file \in Glob(skill.files, "py")}
    ELSE {File("setup", "md"), File("help", "md")}

\* the command files _generate_commands writes: one per scripts/*.py, named
\* after the script's stem, or else the two generic commands
CommandFiles(skill) ==
    IF skill.scriptsDir /\ Glob(skill.files, "py") # {}
    THEN {File(script_file.stem, "md") : script_file \in Glob(skill.files, "py")}
    ELSE {File("setup", "md"), File("help", "md")}

\* PluginGenerator._generate_commands: each file is opened with 'w'; nothing
\* in commands/ is removed
GenerateCommands(skill, dir) ==
    [dir EXCEPT !.commands = @ \cup CommandFiles(skill)]

\* the agent file had _generate_agents tested for 3d-graphics alone
AgentFileOf3dGraphicsOnly(skill_name) ==
    LET category == IF skill_name \in DOMAIN SKILL_CATEGORIES
                    THEN SKILL_CATEGORIES[skill_name].category
                    ELSE "general"
    IN IF category = "3d-graphics"
       THEN File(skill_name \o "-architect", "md")
       ELSE IF category = "animation"
       THEN File(skill_name \o "-choreographer", "md")
       ELSE IF category = "3d-authoring"
       THEN File(skill_name \o "-pipeline", "md")
       ELSE File(skill_name \o "-specialist", "md")

\* the agent file _generate_agents writes, by the skill's category
AgentFile(skill_name) ==
    LET category == IF skill_name \in DOMAIN SKILL_CATEGORIES
                    THEN SKILL_CATEGORIES[skill_name].category
                    ELSE "general"
    IN IF category \in {"3d-graphics", "2d-graphics"}
       THEN File(skill_name \o "-architect", "md")
       ELSE IF category = "animation"
       THEN File(skill_name \o "-choreographer", "md")
       ELSE IF category = "3d-authoring"
       THEN File(skill_name \o "-pipeline", "md")
       ELSE File(skill_name \o "-specialist", "md")

\* PluginGenerator._generate_agents
GenerateAgents(skill_name, dir) ==
    [dir EXCEPT !.agents = @ \cup {AgentFile(skill_name)}]

\* PluginGenerator.generate: the plugin directory after the five steps
GeneratePluginDir(skill_name, skill, metadata, dir) ==
    GenerateAgents(skill_name,
        GenerateCommands(skill,
            CopySkillContent(skill_name,
                GenerateManifest(skill_name, metadata,
                    CreatePluginStructure(dir)))))

-----------------------------------------------------------------------------
(* generate_bundle.py *)

BundleNames == {"core-3d-animation"}

\* BUNDLES, restricted to BundleNames, and each member list to SkillDirs
BUNDLES ==
    [b \in BundleNames |->
        [title |-> "Core 3D & Animation",
         description |-> "Complete core 3D and animation stack",
         skills |-> <<"threejs-webgl", "gsap-scrolltrigger">>,
         category |-> "bundle",
         tags |-> <<"bundle", "3d", "animation", "core", "complete-stack">>]]

\* the directories of a plugin tree: individual/<name> and bundles/<name>
PluginKeys == ({"individual"} \X SkillDirs) \cup ({"bundles"} \X BundleNames)

\* BundleGenerator._create_bundle_structure
CreateBundleStructure(dir) ==
    [dir EXCEPT !.exists = TRUE, !.claudePlugin = TRUE, !.skillsDir = TRUE,
                !.commandsDir = TRUE, !.agentsDir = TRUE]

\* the manifest dict BundleGenerator._generate_manifest builds
BundleManifest(bundle_name) ==
    LET config == BUNDLES[bundle_name]
    IN [name |-> Str(bundle_name),
        version |-> Str("1.0.0"),
        description |-> Str(config.description),
        author |-> Str("Claude Design Skillstack"),
        license |-> Str("Apache-2.0"),
        homepage |-> Str("https://github.com/freshtechbro/claudedesignskills"),
        repository |->
            Obj([type |-> Str("git"),
                 url |-> Str("https://github.com/freshtechbro/claudedesignskills.git")]),
        keywords |-> Arr([i \in DOMAIN config.tags |-> Str(config.tags[i])]),
        category |-> Str(config.category),
        bundle |-> Bool(TRUE),
        includes |-> Arr([i \in DOMAIN config.skills |-> Str(config.skills[i])]),
        skills |-> Chars(<<"skills", "/">>),
        commands |-> Chars(<<"commands", "/">>),
        agents |-> Chars(<<"agents", "/">>)]

\* BundleGenerator._generate_manifest
GenerateBundleManifest(bundle_name, dir) ==
    [dir EXCEPT !.manifest = Json(Obj(BundleManifest(bundle_name)))]

\* BundleGenerator._copy_skills: a member whose skill directory is missing is
\* skipped with a warning
CopySkills(bundle_name, skillsRoot, dir) ==
    [dir EXCEPT !.skillDirs =
        @ \cup {s \in Range(BUNDLES[bundle_name].skills) :
                    s \in DOMAIN skillsRoot /\ skillsRoot[s].exists}]

\* the individual plugin directory of a member skill
IndividualPlugin(tree, skill_name) ==
    IF <<"individual", skill_name>> \in DOMAIN tree
    THEN tree[<<"individual", skill_name>>] ELSE NoDir

\* _aggregate_commands had it copied each file under its own name
AggregateCommandsUnprefixed(bundle_name, tree, dir) ==
    [dir EXCEPT !.commands =
        @ \cup UNION {Glob(IndividualPlugin(tree, s).commands, "md") :
                  s \in {s3 \in Range(BUNDLES[bundle_name].skills) :
                            IndividualPlugin(tree, s3).commandsDir}}]

\* BundleGenerator._aggregate_commands: every commands/*.md of every member's
\* individual plugin, copied as <skill>-<file name>
AggregateCommands(bundle_name, tree, dir) ==
    [dir EXCEPT !.commands =
        @ \cup {File(p[1] \o "-" \o p[2].stem, p[2].ext) :
                  p \in UNION {{s} \X Glob(IndividualPlugin(tree, s).commands, "md") :
                      s \in {s3 \in Range(BUNDLES[bundle_name].skills) :
                                IndividualPlugin(tree, s3).commandsDir}}}]

\* BundleGenerator._create_integration_agent
IntegrationAgent(bundle_name) == File(bundle_name \o "-integration", "md")

\* _create_bundle_agents had it written an agent for every member skill
CreateBundleAgentsOfEveryMember(bundle_name, tree, dir) ==
    [dir EXCEPT !.agents =
        @ \cup {IntegrationAgent(bundle_name)}
          \cup {AgentFile(s) : s \in Range(BUNDLES[bundle_name].skills)}]

\* BundleGenerator._create_bundle_agents: the integration agent, then every
\* agents/*.md of every member's individual plugin under its own name
CreateBundleAgents(bundle_name, tree, dir) ==
    [dir EXCEPT !.agents =
        @ \cup {IntegrationAgent(bundle_name)}
          \cup UNION {Glob(IndividualPlugin(tree, s).agents, "md") :
                 s \in {s3 \in Range(BUNDLES[bundle_name].skills) :
                           IndividualPlugin(tree, s3).agentsDir}}]

\* BundleGenerator.generate: the bundle directory after the five steps
GenerateBundleDir(bundle_name, skillsRoot, tree, dir) ==
    CreateBundleAgents(bundle_name, tree,
        AggregateCommands(bundle_name, tree,
            CopySkills(bundle_name, skillsRoot,
                GenerateBundleManifest(bundle_name,
                    CreateBundleStructure(dir)))))

-----------------------------------------------------------------------------
(* fix_plugin_manifests.py *)

\* the author fix had it left the string
FixAuthorUntouched(m) == m

\* "Fix author field: string -> object"
FixAuthor(m) ==
    IF "author" \in DOMAIN m /\ IsStr(m["author"])
    THEN Put(m, "author",
             Obj([name |-> m["author"], email |-> Str("oladotun.olatunji@gmail.com")]))
    ELSE m

\* "Fix repository field: object -> string": manifest["repository"]["url"]
FixRepository(m) ==
    IF "repository" \in DOMAIN m /\ IsDict(m["repository"])
    THEN IF "url" \in DOMAIN m["repository"].obj
         THEN Ok(Put(m, "repository", m["repository"].obj["url"]))
         ELSE Raises("KeyError")
    ELSE Ok(m)

\* the path fix had it left every string as it is
FixPathFieldUntouched(m, field) == m

\* "must start with ./": a string path field gets "./" in front unless it has it
FixPathField(m, field) ==
    IF field \in DOMAIN m /\ IsStr(m[field]) /\ ~StartsWithDotSlash(m[field].str)
    THEN Put(m, field, Chars(<<".", "/">> \o m[field].str))
    ELSE m

\* the removal had it left includes in the manifest
RemoveUnrecognizedButIncludes(m) == [k \in DOMAIN m \ {"category", "bundle"} |-> m[k]]

\* the removal had it taken version for an unrecognized field as well
RemoveUnrecognizedAndVersion(m) ==
    [k \in DOMAIN m \ {"category", "bundle", "includes", "version"} |-> m[k]]

\* "Remove unrecognized fields"
RemoveUnrecognized(m) == [k \in DOMAIN m \ {"category", "bundle", "includes"} |-> m[k]]

\* fix_plugin_manifest on the parsed manifest: the dict written back, or the
\* exception raised before anything is written
FixManifestDict(m) ==
    LET r == FixRepository(FixAuthor(m))
    IN IF IsOk(r)
       THEN Ok(RemoveUnrecognized(
                FixPathField(FixPathField(FixPathField(r.ok, "commands"),
                                          "agents"), "skills")))
       ELSE r

\* fix_plugin_manifest had it written the file after the author fix already
FixManifestFileWrittenAsItGoes(file) ==
    IF ~IsJson(file) THEN Raises("JSONDecodeError")
    ELSE LET r == FixManifestDict(file.json.obj)
         IN IF IsOk(r) THEN Ok(Json(Obj(r.ok)))
            ELSE Ok(Json(Obj(FixAuthor(file.json.obj))))

\* fix_plugin_manifests.fix_plugin_manifest on the file plugin.json: json.load,
\* the fixes, json.dump
FixManifestFile(file) ==
    IF ~IsJson(file) THEN Raises("JSONDecodeError")
    ELSE LET r == FixManifestDict(file.json.obj)
         IN IF IsOk(r) THEN Ok(Json(Obj(r.ok))) ELSE r

\* the loop of main over the directories of `order`: a directory without
\* plugin.json is passed over, and the first exception ends the run
RECURSIVE FixManifestsLoop(_, _)
FixManifestsLoop(order, tree) ==
    IF order = <<>> THEN [tree |-> tree, raised |-> FALSE]
    ELSE LET k == Head(order)
             dir == tree[k]
         IN IF ~(dir.exists /\ dir.claudePlugin /\ FileExists(dir.manifest))
            THEN FixManifestsLoop(Tail(order), tree)
            ELSE LET r == FixManifestFile(dir.manifest)
                 IN IF IsOk(r)
                    THEN FixManifestsLoop(Tail(order),
                             [tree EXCEPT ![k].manifest = r.ok])
                    ELSE [tree |-> tree, raised |-> TRUE]

-----------------------------------------------------------------------------
(* fix_agent_command_paths.py *)

\* the file stems of the model in ascending str order, which sorted() follows
SortedStems ==
    <<"blender-web-pipeline-pipeline", "core-3d-animation-integration",
      "gsap-scrolltrigger-choreographer", "gsap-scrolltrigger-help",
      "gsap-scrolltrigger-setup", "help", "modern-web-design-specialist",
      "new-skill-specialist", "old_command", "optimize", "pixijs-2d-architect",
      "setup", "setup_scene", "threejs-webgl-architect",
      "threejs-webgl-help", "threejs-webgl-old_command", "threejs-webgl-optimize",
      "threejs-webgl-setup", "threejs-webgl-setup_scene">>

StemRank(stem) == CHOOSE i \in DOMAIN SortedStems : SortedStems[i] = stem

\* sorted(md_dir.glob("*.md"))
RECURSIVE SortedFiles(_)
SortedFiles(files) ==
    IF files = {} THEN <<>>
    ELSE LET least == CHOOSE f \in files :
                         \A g \in files : StemRank(f.stem) <= StemRank(g.stem)
         IN <<least>> \o SortedFiles(files \ {least})

\* get_md_files(plugin_dir, subdir)
GetMdFiles(exists, files, subdir) ==
    IF ~exists THEN <<>>
    ELSE LET md_files == SortedFiles(Glob(files, "md"))
         IN [i \in DOMAIN md_files |->
                Chars(<<".", "/", subdir, "/", FileName(md_files[i])>>)]

\* the conversion had it taken only a string without "./" in front
FixDirectoryFieldBare(m, field, md_files) ==
    IF field \in DOMAIN m /\ IsStr(m[field]) /\ EndsWithSlash(m[field].str)
          /\ ~StartsWithDotSlash(m[field].str) /\ md_files # <<>>
    THEN Put(m, field, Arr(md_files))
    ELSE m

\* the conversion of one path field: a string that ends with "/" becomes the
\* array of the .md files found, when there is at least one
FixDirectoryField(m, field, md_files) ==
    IF field \in DOMAIN m /\ IsStr(m[field]) /\ EndsWithSlash(m[field].str)
          /\ md_files # <<>>
    THEN Put(m, field, Arr(md_files))
    ELSE m

\* the fix had it converted commands and left agents as it is
FixPathsDictCommandsOnly(m, dir) ==
    FixDirectoryField(m, "commands",
                      GetMdFiles(dir.commandsDir, dir.commands, "commands"))

\* fix_agent_command_paths.fix_plugin_manifest on the parsed manifest
FixPathsDict(m, dir) ==
    FixDirectoryField(
        FixDirectoryField(m, "commands",
                          GetMdFiles(dir.commandsDir, dir.commands, "commands")),
        "agents", GetMdFiles(dir.agentsDir, dir.agents, "agents"))

\* fix_agent_command_paths.fix_plugin_manifest on a plugin directory: the
\* file is written only when a field changed
FixPathsDir(dir) ==
    IF ~(dir.exists /\ dir.claudePlugin /\ FileExists(dir.manifest)) THEN Ok(dir)
    ELSE IF ~IsJson(dir.manifest) THEN Raises("JSONDecodeError")
    ELSE Ok([dir EXCEPT !.manifest = Json(Obj(FixPathsDict(dir.manifest.json.obj, dir)))])

\* the loop of main over the directories of `order`
RECURSIVE FixPathsLoop(_, _)
FixPathsLoop(order, tree) ==
    IF order = <<>> THEN [tree |-> tree, raised |-> FALSE]
    ELSE LET k == Head(order)
             r == FixPathsDir(tree[k])
         IN IF IsOk(r)
            THEN FixPathsLoop(Tail(order), [tree EXCEPT ![k] = r.ok])
            ELSE [tree |-> tree, raised |-> TRUE]

-----------------------------------------------------------------------------
(* Directory listings of a plugin tree *)

\* the directory names of the model in ascending str order
SortedDirNames ==
    <<".system", "blender-web-pipeline", "core-3d-animation", "gsap-scrolltrigger",
      "modern-web-design", "new-skill", "pixijs-2d", "skill-creator", "threejs-webgl">>

\* sorted(d for d in <root>/<kind>.iterdir() if d.is_dir())
SortedDirs(tree, kind) ==
    LET present(n) == <<kind, n>> \in DOMAIN tree /\ tree[<<kind, n>>].exists
    IN [i \in 1..Cardinality({j \in DOMAIN SortedDirNames : present(SortedDirNames[j])}) |->
          SortedDirNames[
              CHOOSE j \in DOMAIN SortedDirNames :
                  /\ present(SortedDirNames[j])
                  /\ Cardinality({h \in 1..j : present(SortedDirNames[h])}) = i]]

\* <root>/<kind> exists: the model keeps no empty individual/ or bundles/
KindDirExists(tree, kind) == SortedDirs(tree, kind) # <<>>

-----------------------------------------------------------------------------
(* generate_marketplace.py *)

\* the entry had its tags been read from the manifest's "tags" key
PluginEntryTagsFromTags(kind, dir_name, m) ==
    IF "name" \notin DOMAIN m THEN Raises("KeyError")
    ELSE LET common ==
                 [name |-> m["name"],
                  source |-> Chars(<<".", "/", kind, "/", dir_name>>),
                  version |-> Get(m, "version", Str("1.0.0")),
                  description |-> Get(m, "description", Chars(<<>>)),
                  category |-> Get(m, "category",
                                   IF kind = "individual" THEN Str("general")
                                   ELSE Str("bundle")),
                  tags |-> Get(m, "tags", Arr(<<>>)),
                  author |-> Get(m, "author", Chars(<<>>)),
                  license |-> Get(m, "license", Str("Apache-2.0"))]
         IN IF kind = "individual" THEN Ok(Obj(common))
            ELSE Ok(Obj(common @@ [bundle |-> Bool(TRUE),
                                   includes |-> Get(m, "includes", Arr(<<>>))]))

\* the entry built from one manifest; manifest["name"] raises when absent
PluginEntry(kind, dir_name, m) ==
    IF "name" \notin DOMAIN m THEN Raises("KeyError")
    ELSE LET common ==
                 [name |-> m["name"],
                  source |-> Chars(<<".", "/", kind, "/", dir_name>>),
                  version |-> Get(m, "version", Str("1.0.0")),
                  description |-> Get(m, "description", Chars(<<>>)),
                  category |-> Get(m, "category",
                                   IF kind = "individual" THEN Str("general")
                                   ELSE Str("bundle")),
                  tags |-> Get(m, "keywords", Arr(<<>>)),
                  author |-> Get(m, "author", Chars(<<>>)),
                  license |-> Get(m, "license", Str("Apache-2.0"))]
         IN IF kind = "individual" THEN Ok(Obj(common))
            ELSE Ok(Obj(common @@ [bundle |-> Bool(TRUE),
                                   includes |-> Get(m, "includes", Arr(<<>>))]))

\* the loop of _collect_individual_plugins / _collect_bundle_plugins over the
\* sorted directories: no manifest is a warning and the directory is skipped
RECURSIVE CollectLoop(_, _, _, _)
CollectLoop(tree, kind, order, acc) ==
    IF order = <<>> THEN Ok(acc)
    ELSE LET dir == tree[<<kind, Head(order)>>]
         IN IF ~(dir.claudePlugin /\ FileExists(dir.manifest))
            THEN CollectLoop(tree, kind, Tail(order), acc)
            ELSE IF ~IsJson(dir.manifest) THEN Raises("JSONDecodeError")
            ELSE LET e == PluginEntry(kind, Head(order), dir.manifest.json.obj)
                 IN IF IsOk(e)
                    THEN CollectLoop(tree, kind, Tail(order), Append(acc, e.ok))
                    ELSE e

\* MarketplaceGenerator._collect_individual_plugins
CollectIndividualPlugins(tree) ==
    CollectLoop(tree, "individual", SortedDirs(tree, "individual"), <<>>)

\* _collect_bundle_plugins had it listed individual/ as its twin does
CollectBundlePluginsOfIndividual(tree) ==
    CollectLoop(tree, "individual", SortedDirs(tree, "individual"), <<>>)

\* MarketplaceGenerator._collect_bundle_plugins
CollectBundlePlugins(tree) ==
    CollectLoop(tree, "bundles", SortedDirs(tree, "bundles"), <<>>)

\* the marketplace dict MarketplaceGenerator.generate builds
MarketplaceManifest(all_plugins) ==
    [name |-> Str("claude-design-skillstack"),
     owner |-> Obj([name |-> Str("Claude Design Skillstack"),
                    url |-> Str("https://github.com/freshtechbro/claudedesignskills")]),
     metadata |-> Obj([description |-> Str("Professional design agency skillstack"),
                       version |-> Str("1.0.0"),
                       pluginRoot |-> Chars(<<".", "/", ".", "claude", "/", "plugins">>),
                       homepage |-> Str("https://github.com/freshtechbro/claudedesignskills"),
                       repository |-> Str("https://github.com/freshtechbro/claudedesignskills")]),
     plugins |-> Arr(all_plugins)]

\* generate had it put the bundle entries first
GenerateMarketplaceFileBundlesFirst(tree) ==
    LET individual == CollectIndividualPlugins(tree)
        bundle == CollectBundlePlugins(tree)
    IN IF ~IsOk(individual) THEN individual
       ELSE IF ~IsOk(bundle) THEN bundle
       ELSE Ok(Json(Obj(MarketplaceManifest(bundle.ok \o individual.ok))))

\* generate had the collectors opened plugin.json without the exists() test
GenerateMarketplaceFileUntested(tree) ==
    IF \E k \in DOMAIN tree :
          tree[k].exists /\ ~(tree[k].claudePlugin /\ FileExists(tree[k].manifest))
    THEN Raises("FileNotFoundError")
    ELSE LET individual == CollectIndividualPlugins(tree)
             bundle == CollectBundlePlugins(tree)
         IN IF ~IsOk(individual) THEN individual
            ELSE IF ~IsOk(bundle) THEN bundle
            ELSE Ok(Json(Obj(MarketplaceManifest(individual.ok \o bundle.ok))))

\* MarketplaceGenerator.generate: the file written, or the exception raised
\* while collecting, before anything is written
GenerateMarketplaceFile(tree) ==
    LET individual == CollectIndividualPlugins(tree)
        bundle == CollectBundlePlugins(tree)
    IN IF ~IsOk(individual) THEN individual
       ELSE IF ~IsOk(bundle) THEN bundle
       ELSE Ok(Json(Obj(MarketplaceManifest(individual.ok \o bundle.ok))))

-----------------------------------------------------------------------------
(* validate_marketplace.py *)

\* one entry of self.errors or self.warnings: what it names, and what it says
Msg(who, what) == [who |-> who, what |-> what]

\* a JSON value as it prints inside a message
NameText(v) == IF IsStr(v) /\ Len(v.str) = 1 THEN v.str[1] ELSE "<value>"

\* the validator's lists so far; crashed when an exception left uncaught
Report(errors, warnings, crashed) ==
    [errors |-> errors, warnings |-> warnings, crashed |-> crashed]

\* the components of a relative path: its tokens split at "/", the empty
\* components and the "." components dropped, as pathlib joins them
RECURSIVE PathParts(_, _)
PathParts(t, cur) ==
    IF t = <<>>
    THEN IF cur = <<>> \/ cur = <<".">> THEN <<>> ELSE <<cur>>
    ELSE IF Head(t) = "/"
         THEN (IF cur = <<>> \/ cur = <<".">> THEN <<>> ELSE <<cur>>)
                  \o PathParts(Tail(t), <<>>)
         ELSE PathParts(Tail(t), Append(cur, Head(t)))

\* (repo_root / ".claude" / "plugins" / rel).exists(), for the paths of the
\* model: the plugins root, individual/ and bundles/, a plugin directory and
\* its four sub-directories
PluginPathExists(tree, rel) ==
    LET parts == PathParts(rel, <<>>)
        kind == parts[1][1]
        name == parts[2][1]
        sub == parts[3]
    IN \/ parts = <<>>
       \/ /\ Len(parts) \in 1..3
          /\ \A i \in DOMAIN parts : Len(parts[i]) = 1 \/ (i = 3 /\ Len(parts[i]) = 2)
          /\ KindDirExists(tree, kind)
          /\ Len(parts) >= 2 => (<<kind, name>> \in DOMAIN tree /\ tree[<<kind, name>>].exists)
          /\ Len(parts) = 3 =>
                LET dir == tree[<<kind, name>>]
                IN \/ sub = <<".", "claude-plugin">> /\ dir.claudePlugin
                   \/ sub = <<"skills">> /\ dir.skillsDir
                   \/ sub = <<"commands">> /\ dir.commandsDir
                   \/ sub = <<"agents">> /\ dir.agentsDir

\* MarketplaceValidator._validate_plugin_entry: `field not in plugin` raises
\* TypeError unless plugin is a dict (a str or list entry is searched instead),
\* and source.startswith raises AttributeError unless source is a str
ValidatePluginEntry(tree, plugin, index, rep) ==
    IF ~IsDict(plugin) THEN [rep EXCEPT !.crashed = TRUE]
    ELSE LET e == plugin.obj
             label == "marketplace.json plugins[" \o ToString(index) \o "]"
             e1 == IF "name" \notin DOMAIN e
                   THEN Append(rep.errors, Msg(label, "Missing 'name'")) ELSE rep.errors
             e2 == IF "source" \notin DOMAIN e
                   THEN Append(e1, Msg(label, "Missing 'source'")) ELSE e1
         IN IF "source" \notin DOMAIN e THEN [rep EXCEPT !.errors = e2]
            ELSE IF ~IsStr(e["source"]) THEN [rep EXCEPT !.errors = e2, !.crashed = TRUE]
            ELSE IF StartsWithDotSlash(e["source"].str)
                      /\ ~PluginPathExists(tree, LStripDotSlash(e["source"].str))
                 THEN [rep EXCEPT !.errors =
                          Append(e2, Msg(NameText(Get(e, "name", Str("unknown"))),
                                         "Source path not found"))]
                 ELSE [rep EXCEPT !.errors = e2]

\* the loop over marketplace["plugins"]
RECURSIVE ValidateEntries(_, _, _, _)
ValidateEntries(tree, entries, i, rep) ==
    IF i > Len(entries) \/ rep.crashed THEN rep
    ELSE ValidateEntries(tree, entries, i + 1,
                         ValidatePluginEntry(tree, entries[i], i - 1, rep))

\* MarketplaceValidator._validate_marketplace_json
ValidateMarketplaceJson(tree, file, rep) ==
    IF ~FileExists(file)
    THEN [rep EXCEPT !.errors = Append(@, Msg("marketplace.json", "not found"))]
    ELSE IF ~IsJson(file)
    THEN [rep EXCEPT !.errors = Append(@, Msg("marketplace.json", "Invalid JSON"))]
    ELSE LET mp == file.json.obj
             required == <<"name", "owner", "metadata", "plugins">>
             missing == SelectSeq(required, LAMBDA f : f \notin DOMAIN mp)
             e1 == rep.errors \o
                     [i \in DOMAIN missing |->
                         Msg("marketplace.json", "Missing required field " \o missing[i])]
             e2 == IF "name" \in DOMAIN mp /\ ~IsStr(mp["name"])
                   THEN Append(e1, Msg("marketplace.json", "'name' must be a string"))
                   ELSE IF "name" \in DOMAIN mp /\ mp["name"].str = <<>>
                   THEN Append(e1, Msg("marketplace.json", "'name' cannot be empty"))
                   ELSE e1
             e3 == IF "owner" \in DOMAIN mp /\ ~IsDict(mp["owner"])
                   THEN Append(e2, Msg("marketplace.json", "'owner' must be an object"))
                   ELSE IF "owner" \in DOMAIN mp /\ "name" \notin DOMAIN mp["owner"].obj
                   THEN Append(e2, Msg("marketplace.json", "owner.name is required"))
                   ELSE e2
             w3 == IF "owner" \in DOMAIN mp /\ IsDict(mp["owner"])
                      /\ "url" \notin DOMAIN mp["owner"].obj
                   THEN Append(rep.warnings,
                               Msg("marketplace.json", "owner.url is recommended"))
                   ELSE rep.warnings
         IN IF "plugins" \notin DOMAIN mp THEN Report(e3, w3, FALSE)
            ELSE IF ~IsList(mp["plugins"])
            THEN Report(Append(e3, Msg("marketplace.json", "'plugins' must be an array")),
                        w3, FALSE)
            ELSE ValidateEntries(tree, mp["plugins"].arr, 1, Report(e3, w3, FALSE))

\* MarketplaceValidator._validate_plugin
ValidatePlugin(dir, plugin_name, rep) ==
    LET e1 == IF ~dir.claudePlugin
              THEN Append(rep.errors,
                          Msg(plugin_name, "Missing required directory '.claude-plugin'"))
              ELSE rep.errors
        e2 == IF ~dir.skillsDir
              THEN Append(e1, Msg(plugin_name, "Missing required directory 'skills'"))
              ELSE e1
    IN IF ~(dir.claudePlugin /\ FileExists(dir.manifest))
       THEN [rep EXCEPT !.errors = Append(e2, Msg(plugin_name, "plugin.json not found"))]
       ELSE IF ~IsJson(dir.manifest)
       THEN [rep EXCEPT !.errors =
                Append(e2, Msg(plugin_name, "Invalid JSON in plugin.json"))]
       ELSE LET m == dir.manifest.json.obj
                required == <<"name", "version", "description">>
                missing == SelectSeq(required, LAMBDA f : f \notin DOMAIN m)
                e3 == e2 \o [i \in DOMAIN missing |->
                                Msg(plugin_name, "plugin.json missing " \o missing[i])]
                e4 == IF Get(m, "name", None) # Str(plugin_name)
                      THEN Append(e3, Msg(plugin_name, "name doesn't match directory name"))
                      ELSE e3
                e5 == IF ~dir.skillsDir
                      THEN Append(e4, Msg(plugin_name, "skills/ directory not found"))
                      ELSE IF dir.skillDirs = {}
                      THEN Append(e4, Msg(plugin_name, "No skills found in skills/ directory"))
                      ELSE e4
                w1 == IF ~dir.commandsDir
                      THEN Append(rep.warnings, Msg(plugin_name, "No commands directory found"))
                      ELSE rep.warnings
                w2 == IF ~dir.agentsDir
                      THEN Append(w1, Msg(plugin_name, "No agents directory found"))
                      ELSE w1
            IN Report(e5, w2, FALSE)

\* the loop had it returned after its first directory
ValidatePluginDirsFirstOnly(tree, kind, order, rep) ==
    IF order = <<>> THEN rep
    ELSE ValidatePlugin(tree[<<kind, Head(order)>>], Head(order), rep)

\* the loop over the sorted plugin directories of one kind
RECURSIVE ValidatePluginDirs(_, _, _, _)
ValidatePluginDirs(tree, kind, order, rep) ==
    IF order = <<>> THEN rep
    ELSE ValidatePluginDirs(tree, kind, Tail(order),
             ValidatePlugin(tree[<<kind, Head(order)>>], Head(order), rep))

\* MarketplaceValidator._validate_individual_plugins
ValidateIndividualPlugins(tree, rep) ==
    IF ~KindDirExists(tree, "individual")
    THEN [rep EXCEPT !.warnings =
             Append(@, Msg("individual", "No individual plugins directory found"))]
    ELSE ValidatePluginDirs(tree, "individual", SortedDirs(tree, "individual"), rep)

\* MarketplaceValidator._validate_bundle_plugins
ValidateBundlePlugins(tree, rep) ==
    IF ~KindDirExists(tree, "bundles")
    THEN [rep EXCEPT !.warnings = Append(@, Msg("bundles", "No bundles directory found"))]
    ELSE ValidatePluginDirs(tree, "bundles", SortedDirs(tree, "bundles"), rep)

\* validate had it gone on to the bundles only when the individuals pass
\* recorded no error
ValidateUntilFirstError(tree, file) ==
    LET r1 == ValidateMarketplaceJson(tree, file, Report(<<>>, <<>>, FALSE))
        r2 == ValidateIndividualPlugins(tree, r1)
    IN IF r1.crashed THEN r1
       ELSE IF Len(r2.errors) > Len(r1.errors) THEN r2
       ELSE ValidateBundlePlugins(tree, r2)

\* MarketplaceValidator.validate: the three passes; an uncaught exception in
\* the first ends the process before the others run
Validate(tree, file) ==
    LET r1 == ValidateMarketplaceJson(tree, file, Report(<<>>, <<>>, FALSE))
    IN IF r1.crashed THEN r1
       ELSE ValidateBundlePlugins(tree, ValidateIndividualPlugins(tree, r1))

\* the exit status had success been that both lists are empty
ValidateExitCodeCountingWarnings(rep) ==
    IF rep.crashed THEN 1
    ELSE IF Len(rep.errors) + Len(rep.warnings) = 0 THEN 0 ELSE 1

\* the exit status of validate_marketplace.py: sys.exit(0 if success else 1),
\* and 1 from the interpreter after an uncaught exception
ValidateExitCode(rep) ==
    IF rep.crashed THEN 1 ELSE IF Len(rep.errors) = 0 THEN 0 ELSE 1

-----------------------------------------------------------------------------
(* The processes *)

\* what a finished process leaves: its script and argument, its exit status,
\* the validator's two lists, and the names a generator tried and generated
Process(script, arg, exit) ==
    [script |-> script, arg |-> arg, exit |-> exit, crashed |-> FALSE,
     errors |-> <<>>, warnings |-> <<>>, attempted |-> <<>>, generated |-> {}]

NoProcess == Process("none", "", 0)

\* all the orders in which iterdir() may list the directories of S
Orders(S) ==
    {o \in [1..Cardinality(S) -> S] : \A i, j \in DOMAIN o : i # j => o[i] # o[j]}

\* the directories <root>/<kind>/* that exist, as keys of the tree
KindKeys(tree, kind) == {k \in DOMAIN tree : k[1] = kind /\ tree[k].exists}

\* generate_plugin.py <skill-name>: the constructor raises before generate()
GeneratePlugin(skill_name) ==
    LET metadata == LoadSkillMetadata(skills[skill_name])
    IN /\ IF IsOk(metadata)
          THEN /\ plugins' = [plugins EXCEPT ![<<"individual", skill_name>>] =
                                 GeneratePluginDir(skill_name, skills[skill_name], metadata.ok, @)]
               /\ run' = [Process("generate_plugin", skill_name, 0) EXCEPT
                             !.attempted = <<skill_name>>, !.generated = {skill_name}]
          ELSE /\ plugins' = plugins
               /\ run' = [Process("generate_plugin", skill_name, 1) EXCEPT
                             !.crashed = TRUE, !.attempted = <<skill_name>>]
       /\ fixed' = {}
       /\ UNCHANGED <<skills, rplugins, marketplace, fx>>

\* the list had it been every directory of the skills root
AllSkillsUnfiltered == {s \in DOMAIN skills : skills[s].exists}

\* the skills generate_plugin.py --all lists: the directories of the skills
\* root except skill-creator and the names that start with ".", of which the
\* model has .system
AllSkills ==
    {s \in DOMAIN skills :
        skills[s].exists /\ s # "skill-creator" /\ s \notin {".system"}}

\* the exit status of generate_plugin.py --all: main returns after the loop
GenerateAllExitCode(attempted, generated) == 0

\* generate_plugin.py --all: every skill in sorted order, an exception caught
\* and the loop continued
GeneratePluginAll ==
    LET order == SelectSeq(SortedDirNames, LAMBDA s : s \in AllSkills)
        good == {s \in AllSkills : IsOk(LoadSkillMetadata(skills[s]))}
    IN /\ plugins' =
             [k \in DOMAIN plugins |->
                 IF k[1] = "individual" /\ k[2] \in good
                 THEN GeneratePluginDir(k[2], skills[k[2]],
                                        LoadSkillMetadata(skills[k[2]]).ok, plugins[k])
                 ELSE plugins[k]]
       /\ run' = [Process("generate_plugin", "--all",
                          GenerateAllExitCode(Range(order), good)) EXCEPT
                     !.attempted = order, !.generated = good]
       /\ fixed' = {}
       /\ UNCHANGED <<skills, rplugins, marketplace, fx>>

\* generate_bundle.py <bundle-name>, for a key of BUNDLES
GenerateBundle(bundle_name) ==
    /\ plugins' = [plugins EXCEPT ![<<"bundles", bundle_name>>] =
                      GenerateBundleDir(bundle_name, skills, plugins, @)]
    /\ run' = [Process("generate_bundle", bundle_name, 0) EXCEPT
                  !.attempted = <<bundle_name>>, !.generated = {bundle_name}]
    /\ fixed' = {}
    /\ UNCHANGED <<skills, rplugins, marketplace, fx>>

\* BUNDLES.keys(), in the order the dict literal lists them
BundleOrder == <<"core-3d-animation">>

\* generate_bundle.py --all
GenerateBundleAll ==
    /\ plugins' = [k \in DOMAIN plugins |->
                      IF k[1] = "bundles" /\ k[2] \in Range(BundleOrder)
                      THEN GenerateBundleDir(k[2], skills, plugins, plugins[k])
                      ELSE plugins[k]]
    /\ run' = [Process("generate_bundle", "--all", 0) EXCEPT
                  !.attempted = BundleOrder, !.generated = Range(BundleOrder)]
    /\ fixed' = {}
    /\ UNCHANGED <<skills, rplugins, marketplace, fx>>

\* generate_marketplace.py
GenerateMarketplace ==
    LET r == GenerateMarketplaceFile(plugins)
    IN /\ marketplace' = IF IsOk(r) THEN r.ok ELSE marketplace
       /\ run' = IF IsOk(r) THEN Process("generate_marketplace", "", 0)
                 ELSE [Process("generate_marketplace", "", 1) EXCEPT !.crashed = TRUE]
       /\ UNCHANGED <<skills, plugins, rplugins, fixed, fx>>

\* validate_marketplace.py
ValidateMarketplace ==
    LET rep == Validate(plugins, marketplace)
    IN /\ run' = [Process("validate_marketplace", "", ValidateExitCode(rep)) EXCEPT
                     !.crashed = rep.crashed, !.errors = rep.errors,
                     !.warnings = rep.warnings]
       /\ UNCHANGED <<skills, plugins, rplugins, marketplace, fixed, fx>>

\* fix_plugin_manifests.py: repo_root/.claude/plugins, the individual plugins
\* and then the bundles, each in the order iterdir() gives
FixPluginManifests ==
    \E oi \in Orders(KindKeys(plugins, "individual")),
       ob \in Orders(KindKeys(plugins, "bundles")) :
        LET r == FixManifestsLoop(oi \o ob, plugins)
        IN /\ plugins' = r.tree
           /\ run' = IF r.raised
                     THEN [Process("fix_plugin_manifests", "", 1) EXCEPT !.crashed = TRUE]
                     ELSE Process("fix_plugin_manifests", "", 0)
           /\ fixed' = IF r.raised THEN fixed ELSE fixed \cup {"fix_plugin_manifests"}
           /\ UNCHANGED <<skills, rplugins, marketplace, fx>>

\* fix_agent_command_paths.py: repo_root/plugins, the individual plugins and
\* then the bundles, each sorted
FixAgentCommandPaths ==
    LET order == [i \in DOMAIN SortedDirs(rplugins, "individual") |->
                     <<"individual", SortedDirs(rplugins, "individual")[i]>>]
                 \o [i \in DOMAIN SortedDirs(rplugins, "bundles") |->
                        <<"bundles", SortedDirs(rplugins, "bundles")[i]>>]
        r == FixPathsLoop(order, rplugins)
    IN /\ rplugins' = r.tree
       /\ run' = IF r.raised
                 THEN [Process("fix_agent_command_paths", "", 1) EXCEPT !.crashed = TRUE]
                 ELSE Process("fix_agent_command_paths", "", 0)
       /\ fixed' = IF r.raised THEN fixed ELSE fixed \cup {"fix_agent_command_paths"}
       /\ UNCHANGED <<skills, plugins, marketplace, fx>>

-----------------------------------------------------------------------------
(* The two fixers on one plugin directory *)

\* the most calls of a fix_plugin_manifest function one directory gets
MaxFixes == 2

\* the directory as it was first, before the last call and now, and the calls
Repair(orig, before, dir, log) ==
    [orig |-> orig, before |-> before, dir |-> dir, log |-> log]

NoRepair == Repair(NoDir, NoDir, NoDir, <<>>)

\* fix_plugin_manifests.fix_plugin_manifest(<dir>/.claude-plugin/plugin.json)
FxFixPluginManifest ==
    /\ Len(fx.log) < MaxFixes
    /\ LET r == FixManifestFile(fx.dir.manifest)
       IN fx' = IF IsOk(r)
                THEN Repair(fx.orig, fx.dir, [fx.dir EXCEPT !.manifest = r.ok],
                            Append(fx.log, "fix_plugin_manifests"))
                ELSE Repair(fx.orig, fx.dir, fx.dir,
                            Append(fx.log, "fix_plugin_manifests raised"))
    /\ UNCHANGED <<skills, plugins, rplugins, marketplace, run, fixed>>

\* fix_agent_command_paths.fix_plugin_manifest(<dir>)
FxFixAgentCommandPaths ==
    /\ Len(fx.log) < MaxFixes
    /\ LET r == FixPathsDir(fx.dir)
       IN fx' = IF IsOk(r)
                THEN Repair(fx.orig, fx.dir, r.ok,
                            Append(fx.log, "fix_agent_command_paths"))
                ELSE Repair(fx.orig, fx.dir, fx.dir,
                            Append(fx.log, "fix_agent_command_paths raised"))
    /\ UNCHANGED <<skills, plugins, rplugins, marketplace, run, fixed>>

-----------------------------------------------------------------------------
(* The inputs: the trees the scripts may be started on *)

\* a SKILL.md with frontmatter, with and without a name key
SkillMdNamed ==
    [lines |-> <<Delim, KV("name", "Three.js WebGL"),
                 KV("description", "3D graphics with Three.js"), Delim,
                 Text("# Three.js WebGL")>>]
SkillMdUnnamed ==
    [lines |-> <<Delim, KV("description", "Scroll animation"), Delim, Text("# GSAP")>>]
\* a SKILL.md whose "---" block is not at its start
SkillMdNoFrontmatter ==
    [lines |-> <<Text("# Three.js WebGL"), Delim, KV("name", "Three.js WebGL"), Delim>>]

\* a skill with SKILL.md and the scripts named
ScriptedSkill(stems) == Skill(SkillMdNamed, TRUE, {File(st, "py") : st \in stems})

\* the states of the skill directory threejs-webgl
ThreeSkillShapes ==
    {NoSkill,
     Skill(NoFile, TRUE, {File("setup_scene", "py")}),
     Skill(SkillMdNoFrontmatter, TRUE, {File("setup_scene", "py")}),
     ScriptedSkill({"setup_scene"}),
     Skill(SkillMdNamed, TRUE, {File("setup_scene", "py"), File("optimize", "py"),
                                File("notes", "txt")}),
     Skill(SkillMdNamed, TRUE, {File("notes", "txt")}),
     Skill(SkillMdNamed, FALSE, {})}

\* the states of the skill directory gsap-scrolltrigger
GsapSkillShapes ==
    {NoSkill, Skill(NoFile, FALSE, {}), Skill(SkillMdUnnamed, FALSE, {})}

\* a tree with no plugin directory
EmptyTree == [k \in PluginKeys |-> NoDir]

\* the plugin directory generate_plugin.py makes of a skill, from nothing
FreshPlugin(skill_name, skill) ==
    GeneratePluginDir(skill_name, skill, LoadSkillMetadata(skill).ok, NoDir)

\* a plugin directory as an earlier run of generate_plugin.py left it, when
\* the skill had the single script old_command.py
StalePlugin(skill_name) == FreshPlugin(skill_name, ScriptedSkill({"old_command"}))

\* the bundle directory generate_bundle.py makes when no member has an
\* individual plugin yet
FreshBundle(bundle_name) ==
    GenerateBundleDir(bundle_name, [s \in SkillDirs |-> ScriptedSkill({"setup_scene"})],
                      EmptyTree, NoDir)

\* a tree that holds one generated plugin and one generated bundle
GeneratedTree ==
    [EmptyTree EXCEPT
        ![<<"individual", "threejs-webgl">>] =
            FreshPlugin("threejs-webgl", ScriptedSkill({"setup_scene"})),
        ![<<"bundles", "core-3d-animation">>] = FreshBundle("core-3d-animation")]

-----------------------------------------------------------------------------
(* The pipeline: every script, on skills the maintainer authored *)

Init ==
    /\ skills \in {sk \in [SkillDirs -> ThreeSkillShapes \cup GsapSkillShapes] :
                     /\ sk["threejs-webgl"] = ScriptedSkill({"setup_scene"})
                     /\ sk["gsap-scrolltrigger"] \in
                           {Skill(NoFile, FALSE, {}), Skill(SkillMdUnnamed, FALSE, {})}}
    /\ plugins = EmptyTree
    /\ rplugins = GeneratedTree
    /\ marketplace = NoFile
    /\ run = NoProcess
    /\ fixed = {}
    /\ fx = NoRepair

Next ==
    \/ \E s \in SkillDirs : GeneratePlugin(s)
    \/ GeneratePluginAll
    \/ \E b \in BundleNames : GenerateBundle(b)
    \/ GenerateBundleAll
    \/ GenerateMarketplace
    \/ ValidateMarketplace
    \/ FixPluginManifests
    \/ FixAgentCommandPaths

Spec == Init /\ [][Next]_vars

-----------------------------------------------------------------------------
(* The generators alone, on every state of the skills and of an earlier plugin *)

InitGen ==
    /\ skills \in {sk \in [SkillDirs -> ThreeSkillShapes \cup GsapSkillShapes] :
                     /\ sk["threejs-webgl"] \in ThreeSkillShapes
                     /\ sk["gsap-scrolltrigger"] \in GsapSkillShapes}
    /\ plugins \in {EmptyTree,
                    [EmptyTree EXCEPT ![<<"individual", "threejs-webgl">>] =
                        StalePlugin("threejs-webgl")]}
    /\ rplugins = EmptyTree
    /\ marketplace = NoFile
    /\ run = NoProcess
    /\ fixed = {}
    /\ fx = NoRepair

NextGen ==
    \/ \E s \in SkillDirs : GeneratePlugin(s)
    \/ GeneratePluginAll
    \/ \E b \in BundleNames : GenerateBundle(b)
    \/ GenerateBundleAll

SpecGen == InitGen /\ [][NextGen]_vars

-----------------------------------------------------------------------------
(* The fixers alone, on every shape of manifest they may be given *)

\* a key that a manifest does not have
Absent == [absent |-> TRUE]

\* a dict with the key, unless the value is Absent
Field(key, value) == IF value = Absent THEN EmptyFn ELSE [k \in {key} |-> value]

RepositoryUrl == Str("https://github.com/freshtechbro/claudedesignskills.git")

\* author: absent, a string, an object
AuthorValues ==
    {Absent, Str("Claude Design Skillstack"),
     Obj([name |-> Str("Claude Design Skillstack"), email |-> Str("team@example.com")])}

\* repository: absent, a string, an object with url, an object whose url is
\* an object again, an object without url
RepositoryValues ==
    {Absent, RepositoryUrl,
     Obj([type |-> Str("git"), url |-> RepositoryUrl]),
     Obj([type |-> Str("git"), url |-> Obj([type |-> Str("git"), url |-> RepositoryUrl])]),
     Obj([type |-> Str("git")])}

\* the .md files of commands/ and of agents/ in the directory under repair
FxCommandFiles == {{}, {File("setup", "md"), File("help", "md"), File("notes", "txt")}}
FxAgentFiles == {File("threejs-webgl-architect", "md")}

\* commands: absent, a directory string with and without "./" and "/", the
\* empty string, the array fix_agent_command_paths writes
CommandsValues(files) ==
    {Absent, Chars(<<"commands", "/">>), Chars(<<".", "/", "commands", "/">>),
     Chars(<<"commands">>), Chars(<<>>)}
    \cup {Arr(GetMdFiles(TRUE, fs, "commands")) : fs \in {files} \ {{}}}

AgentsValues ==
    {Chars(<<"agents", "/">>), Arr(GetMdFiles(TRUE, FxAgentFiles, "agents"))}

SkillsValues == {Absent, Chars(<<"skills", "/">>), Chars(<<".", "/", "skills", "/">>)}

\* the legacy keys: none, or category, bundle and includes
LegacyValues ==
    {EmptyFn,
     [category |-> Str("bundle"), bundle |-> Bool(TRUE),
      includes |-> Arr(<<Str("threejs-webgl")>>)]}

\* the plugin directories the fixers are tried on
FxInputs ==
    {[exists |-> TRUE, claudePlugin |-> TRUE,
      manifest |-> Json(Obj([name |-> Str("threejs-webgl"), version |-> Str("1.0.0")]
                            @@ Field("author", a) @@ Field("repository", r)
                            @@ Field("commands", c) @@ Field("agents", g)
                            @@ Field("skills", k) @@ l)),
      skillsDir |-> TRUE, skillDirs |-> {"threejs-webgl"},
      commandsDir |-> TRUE, commands |-> files,
      agentsDir |-> TRUE, agents |-> FxAgentFiles] :
        a \in AuthorValues, r \in RepositoryValues, files \in FxCommandFiles,
        c \in UNION {CommandsValues(fs) : fs \in FxCommandFiles},
        g \in AgentsValues, k \in SkillsValues, l \in LegacyValues}

InitFix ==
    /\ skills = [s \in SkillDirs |-> NoSkill]
    /\ plugins = EmptyTree
    /\ rplugins = EmptyTree
    /\ marketplace = NoFile
    /\ run = NoProcess
    /\ fixed = {}
    /\ fx \in {Repair(d, d, d, <<>>) : d \in FxInputs}

NextFix == FxFixPluginManifest \/ FxFixAgentCommandPaths

SpecFix == InitFix /\ [][NextFix]_vars

-----------------------------------------------------------------------------
(* The marketplace generator and the validator, on every shape of tree and *)
(* of marketplace.json they may be started on                              *)

\* the states of the plugin directory individual/<skill_name>: absent, as
\* generated, and as generated but for one thing: no plugin.json, no
\* .claude-plugin/, a plugin.json that is not JSON, another name, no commands/
\* and agents/, no version and keywords, an empty skills/, a plugin.json that
\* is not JSON beside a missing skills/, no commands/ alone
IndividualShapes(skill_name) ==
    LET good == FreshPlugin(skill_name, ScriptedSkill({"setup_scene"}))
    IN {NoDir, good,
        [good EXCEPT !.manifest = NoFile],
        [good EXCEPT !.claudePlugin = FALSE, !.manifest = NoFile],
        [good EXCEPT !.manifest = BadJson],
        [good EXCEPT !.manifest = Json(Obj(Put(@.json.obj, "name", Str("Three.js WebGL"))))],
        [good EXCEPT !.commandsDir = FALSE, !.commands = {},
                     !.agentsDir = FALSE, !.agents = {}],
        [good EXCEPT !.manifest = Json(Obj(Del(Del(@.json.obj, "version"), "keywords")))],
        [good EXCEPT !.skillDirs = {}],
        [good EXCEPT !.manifest = BadJson, !.skillsDir = FALSE, !.skillDirs = {}],
        [good EXCEPT !.commandsDir = FALSE, !.commands = {}]}

\* the states of the plugin directory bundles/<bundle_name>
BundleShapes(bundle_name) ==
    {NoDir, FreshBundle(bundle_name),
     [FreshBundle(bundle_name) EXCEPT !.manifest = NoFile]}

\* the marketplace.json generate_marketplace.py writes for GeneratedTree
GeneratedMarketplace == GenerateMarketplaceFile(GeneratedTree).ok

\* marketplace.json with its plugins array replaced
WithPlugins(entries) ==
    Json(Obj(Put(GeneratedMarketplace.json.obj, "plugins", entries)))

\* the states of marketplace.json: absent, not JSON, as generated, without
\* owner.url, and edited by hand so that plugins is no array, an entry has a
\* source that is no string, an entry is no object, a source has a first
\* component that begins with ".", a source has no leading "./"
MarketplaceShapes ==
    {NoFile, BadJson, GeneratedMarketplace,
     Json(Obj(Put(GeneratedMarketplace.json.obj, "owner",
                  Obj([name |-> Str("Claude Design Skillstack")])))),
     WithPlugins(Str("none")),
     WithPlugins(Arr(<<Obj([name |-> Str("threejs-webgl"), source |-> None])>>)),
     WithPlugins(Arr(<<Str("threejs-webgl")>>)),
     WithPlugins(Arr(<<Obj([name |-> Str("threejs-webgl"),
                            source |-> Chars(<<".", "/", ".", "individual", "/",
                                               "threejs-webgl">>)])>>)),
     WithPlugins(Arr(<<Obj([name |-> Str("gsap-scrolltrigger"),
                            source |-> Chars(<<"individual", "/",
                                               "gsap-scrolltrigger">>)])>>))}

InitValidate ==
    /\ skills = [s \in SkillDirs |-> NoSkill]
    /\ plugins \in {t \in [PluginKeys -> UNION {IndividualShapes(s) : s \in SkillDirs}
                                         \cup UNION {BundleShapes(b) : b \in BundleNames}] :
                      \A k \in PluginKeys :
                          t[k] \in IF k[1] = "individual" THEN IndividualShapes(k[2])
                                   ELSE BundleShapes(k[2])}
    /\ rplugins = EmptyTree
    /\ marketplace \in MarketplaceShapes
    /\ run = NoProcess
    /\ fixed = {}
    /\ fx = NoRepair

NextValidate == GenerateMarketplace \/ ValidateMarketplace

SpecValidate == InitValidate /\ [][NextValidate]_vars

-----------------------------------------------------------------------------
(* fix_plugin_manifests.py alone, on trees that hold manifests it cannot fix *)

\* the states of a plugin directory: absent, as generated, without
\* plugin.json, with a plugin.json that is not JSON, with a repository object
\* that has no url, and as fix_plugin_manifests left it
FixRunShapes(k) ==
    LET good == IF k[1] = "individual"
                THEN FreshPlugin(k[2], ScriptedSkill({"setup_scene"}))
                ELSE FreshBundle(k[2])
    IN {NoDir, good,
        [good EXCEPT !.manifest = NoFile],
        [good EXCEPT !.manifest = BadJson],
        [good EXCEPT !.manifest =
            Json(Obj(Put(@.json.obj, "repository", Obj([type |-> Str("git")]))))],
        [good EXCEPT !.manifest = FixManifestFile(@).ok]}

InitFixRun ==
    /\ skills = [s \in SkillDirs |-> NoSkill]
    /\ plugins \in {t \in [PluginKeys -> UNION {FixRunShapes(k) : k \in PluginKeys}] :
                      \A k \in PluginKeys : t[k] \in FixRunShapes(k)}
    /\ rplugins = EmptyTree
    /\ marketplace = NoFile
    /\ run = NoProcess
    /\ fixed = {}
    /\ fx = NoRepair

NextFixRun == FixPluginManifests

SpecFixRun == InitFixRun /\ [][NextFixRun]_vars

-----------------------------------------------------------------------------
(* Properties of generate_plugin.py and generate_bundle.py *)

IndividualDir(tree, skill_name) == tree[<<"individual", skill_name>>]

\* C1: after generate_plugin has generated the plugin of a skill whose
\* scripts/ holds at least one *.py file, commands/ holds exactly one .md file
\* per script, named <script stem>.md, and no other .md file, whatever the
\* plugin directory held before.
C1_CommandsExactlyTheScripts ==
    run.script = "generate_plugin" =>
        \A s \in run.generated :
            (skills[s].scriptsDir /\ Glob(skills[s].files, "py") # {}) =>
                Glob(IndividualDir(plugins, s).commands, "md")
                    = {File(f.stem, "md") : f \in Glob(skills[s].files, "py")}

\* the manifests of a tree, as the keys of the directories that hold one
ManifestKeys(tree) == {k \in DOMAIN tree : IsJson(tree[k].manifest)}

\* C2: in every plugin.json the generators wrote, name is the basename of the
\* plugin directory, never the frontmatter's name, and stays so after any run
\* of fix_plugin_manifests or fix_agent_command_paths.
C2_NameIsDirectoryBasename ==
    \A tree \in {plugins, rplugins} :
        \A k \in ManifestKeys(tree) :
            /\ "name" \in DOMAIN tree[k].manifest.json.obj
            /\ tree[k].manifest.json.obj["name"] = Str(k[2])

\* the plugin of a skill whose frontmatter names it otherwise than its
\* directory, after both fixers went over the trees
C2_Witness ==
    /\ fixed = {"fix_plugin_manifests", "fix_agent_command_paths"}
    /\ LoadSkillMetadata(skills["threejs-webgl"]).ok["name"] = "Three.js WebGL"
    /\ IsJson(IndividualDir(plugins, "threejs-webgl").manifest)
    /\ IsDict(IndividualDir(plugins, "threejs-webgl").manifest.json.obj["author"])
    /\ IndividualDir(plugins, "threejs-webgl").manifest.json.obj["name"]
           = Str("threejs-webgl")
    /\ IsList(IndividualDir(rplugins, "threejs-webgl").manifest.json.obj["commands"])
    /\ IndividualDir(rplugins, "threejs-webgl").manifest.json.obj["name"]
           = Str("threejs-webgl")

\* C7: a generator exits 1 when a generation raised, and 0 only when every
\* plugin or bundle it was asked for was generated, --all included.
C7_ExitOneOnGenerationException ==
    run.script \in {"generate_plugin", "generate_bundle"} =>
        (run.exit = 0 <=> run.generated = Range(run.attempted))

\* SKILL.md is absent, or has no "---" block at its start
NoFrontmatter(skill) ==
    \/ ~skill.exists
    \/ ~FileExists(skill.skillMd)
    \/ ~(/\ Len(skill.skillMd.lines) >= 3
         /\ IsDelim(skill.skillMd.lines[1])
         /\ \E j \in 3..Len(skill.skillMd.lines) : IsDelim(skill.skillMd.lines[j]))

\* C10: a run of generate_plugin on a skill whose SKILL.md is absent or has no
\* frontmatter block at its start leaves the skill's plugin directory as it
\* was: nothing of it is created or modified, and the skill is not generated.
C10_RaisesBeforeAnyChange ==
    [][\A s \in SkillDirs :
          (/\ run'.script = "generate_plugin"
           /\ s \in Range(run'.attempted)
           /\ NoFrontmatter(skills[s]))
          => /\ IndividualDir(plugins', s) = IndividualDir(plugins, s)
             /\ s \notin run'.generated]_vars

\* generate_plugin has failed on a SKILL.md without frontmatter, and the
\* plugin directory an earlier run left is as that run left it
C10_Witness ==
    /\ run.script = "generate_plugin" /\ run.arg = "threejs-webgl" /\ run.exit = 1
    /\ skills["threejs-webgl"].skillMd = SkillMdNoFrontmatter
    /\ IndividualDir(plugins, "threejs-webgl") = StalePlugin("threejs-webgl")

-----------------------------------------------------------------------------
(* Properties of the fixers *)

PathFields == {"skills", "commands", "agents"}

\* the manifest of the directory under repair
FxManifest == fx.dir.manifest.json.obj

\* every string among the path fields starts with "./", and so does every
\* element of an array among them
PathsStartWithDotSlash(m) ==
    \A field \in PathFields \cap DOMAIN m :
        /\ IsStr(m[field]) => StartsWithDotSlash(m[field].str)
        /\ IsList(m[field]) =>
              \A i \in DOMAIN m[field].arr : StartsWithDotSlash(m[field].arr[i].str)

\* C9: once fix_plugin_manifests has processed a plugin.json, every path field
\* that is a string starts with "./", and every element of a path field that
\* is an array written by fix_agent_command_paths starts with "./".
C9_PathFieldsStartWithDotSlash ==
    "fix_plugin_manifests" \in Range(fx.log) => PathsStartWithDotSlash(FxManifest)

\* a manifest that had "commands/" and "skills/", after fix_plugin_manifests
\* and then fix_agent_command_paths: commands is an array, skills a string
C9_Witness ==
    /\ fx.log = <<"fix_plugin_manifests", "fix_agent_command_paths">>
    /\ {"commands", "skills"} \subseteq DOMAIN fx.orig.manifest.json.obj
    /\ fx.orig.manifest.json.obj["commands"] = Chars(<<"commands", "/">>)
    /\ fx.orig.manifest.json.obj["skills"] = Chars(<<"skills", "/">>)
    /\ IsList(FxManifest["commands"]) /\ Len(FxManifest["commands"].arr) = 2
    /\ FxManifest["skills"] = Chars(<<".", "/", "skills", "/">>)

\* a string that names a .md file
IsMdPath(v) == IsStr(v) /\ Len(v.str) >= 3 /\ SubSeq(v.str, Len(v.str) - 1, Len(v.str)) = <<".", "md">>

\* C8: after the generators and then both fixers, in either order, every
\* plugin.json of the tree the generators wrote has commands and agents as
\* arrays of .md file paths, never a directory string.
C8_CommandsAndAgentsAreArrays ==
    fixed = {"fix_plugin_manifests", "fix_agent_command_paths"} =>
        \A k \in ManifestKeys(plugins) :
            \A field \in {"commands", "agents"} :
                LET m == plugins[k].manifest.json.obj
                IN /\ field \in DOMAIN m
                   /\ IsList(m[field])
                   /\ \A i \in DOMAIN m[field].arr : IsMdPath(m[field].arr[i])

-----------------------------------------------------------------------------
(* Properties of generate_marketplace.py and validate_marketplace.py *)

\* the plugin directories that exist, and those of them without plugin.json
ExistingDirs == {k \in PluginKeys : plugins[k].exists}
DirsWithoutManifest ==
    {k \in ExistingDirs : ~(plugins[k].claudePlugin /\ FileExists(plugins[k].manifest))}

\* the plugins array of marketplace.json
MarketplaceEntries == marketplace.json.obj["plugins"].arr

\* plugins_dir / source exists
SourceResolves(entry) ==
    /\ IsStr(entry.obj["source"])
    /\ PluginPathExists(plugins, entry.obj["source"].str)
    /\ PathParts(entry.obj["source"].str, <<>>) # <<>>

\* C4: when generate_marketplace has run over N plugin directories that each
\* hold .claude-plugin/plugin.json, the marketplace.json it wrote has a plugins
\* array of length N, one entry per directory, with source ./individual/<dir>
\* or ./bundles/<dir>, and every source names an existing plugin directory.
C4_OneEntryPerPluginDirectory ==
    (run.script = "generate_marketplace" /\ run.exit = 0 /\ DirsWithoutManifest = {}) =>
        /\ Len(MarketplaceEntries) = Cardinality(ExistingDirs)
        /\ \A k \in ExistingDirs :
              Cardinality({i \in DOMAIN MarketplaceEntries :
                              MarketplaceEntries[i].obj["source"]
                                  = Chars(<<".", "/", k[1], "/", k[2]>>)}) = 1
        /\ \A i \in DOMAIN MarketplaceEntries : SourceResolves(MarketplaceEntries[i])

\* generate_marketplace has run over two individual plugins and a bundle
C4_Witness ==
    /\ run.script = "generate_marketplace" /\ run.exit = 0
    /\ ExistingDirs = PluginKeys /\ DirsWithoutManifest = {}
    /\ Len(MarketplaceEntries) = 3

\* C5: when a plugin directory has no .claude-plugin/plugin.json, the
\* validator exits 1 and its error list has an entry that names the directory,
\* whatever marketplace.json and the other plugins are.
C5_MissingManifestIsReported ==
    run.script = "validate_marketplace" =>
        \A k \in DirsWithoutManifest :
            /\ run.exit = 1
            /\ \E i \in DOMAIN run.errors : run.errors[i].who = k[2]

\* C6: the validator exits 0 exactly when its errors list is empty at the end
\* of the run; warnings have no part in the exit code.
C6_ExitZeroIffNoErrors ==
    run.script = "validate_marketplace" => (run.exit = 0 <=> run.errors = <<>>)

\* the plugin directories whose plugin.json json.load reads and that has name
DirsWithManifest == ExistingDirs \ DirsWithoutManifest
ManifestsLoad ==
    \A k \in DirsWithManifest :
        IsJson(plugins[k].manifest) /\ "name" \in DOMAIN plugins[k].manifest.json.obj

\* the source generate_marketplace gives the directory k
SourceOf(k) == Chars(<<".", "/", k[1], "/", k[2]>>)

\* C11: a plugin directory without .claude-plugin/plugin.json does not make
\* generate_marketplace fail: it is skipped, no entry of plugins names it, and
\* marketplace.json is written with one entry for every directory that has a
\* manifest (every manifest that is there being one the generator can read).
C11_ManifestlessDirectoryIsSkipped ==
    (run.script = "generate_marketplace" /\ ManifestsLoad) =>
        /\ run.exit = 0
        /\ IsJson(marketplace)
        /\ Len(MarketplaceEntries) = Cardinality(DirsWithManifest)
        /\ {MarketplaceEntries[i].obj["source"] : i \in DOMAIN MarketplaceEntries}
               = {SourceOf(k) : k \in DirsWithManifest}

\* generate_marketplace has run over a tree with a directory that has no
\* manifest and directories that have one
C11_Witness ==
    /\ run.script = "generate_marketplace" /\ run.exit = 0
    /\ DirsWithoutManifest # {} /\ DirsWithManifest # {}
    /\ ManifestsLoad
    /\ Len(MarketplaceEntries) = Cardinality(DirsWithManifest)

\* the plugin directory an entry's source names
DirOfEntry(entry) == CHOOSE k \in DirsWithManifest : SourceOf(k) = entry.obj["source"]

\* the entry's field is the manifest's, for a field the manifest has
Duplicates(entry, entry_field, m, manifest_field) ==
    manifest_field \in DOMAIN m =>
        /\ entry_field \in DOMAIN entry.obj
        /\ entry.obj[entry_field] = m[manifest_field]

\* C12: every entry of plugins in the marketplace.json just generated has the
\* name, version and description of the plugin.json in the directory its
\* source names, and that manifest's keywords as its tags.
C12_EntryDuplicatesManifest ==
    (run.script = "generate_marketplace" /\ run.exit = 0) =>
        \A i \in DOMAIN MarketplaceEntries :
            LET entry == MarketplaceEntries[i]
            IN /\ \E k \in DirsWithManifest : SourceOf(k) = entry.obj["source"]
               /\ LET m == plugins[DirOfEntry(entry)].manifest.json.obj
                  IN /\ "name" \in DOMAIN m
                     /\ Duplicates(entry, "name", m, "name")
                     /\ Duplicates(entry, "version", m, "version")
                     /\ Duplicates(entry, "description", m, "description")
                     /\ Duplicates(entry, "tags", m, "keywords")

\* a marketplace.json generated from a plugin whose manifest name is not its
\* directory's, and from a bundle: each entry has its manifest's four fields
C12_Witness ==
    /\ run.script = "generate_marketplace" /\ run.exit = 0
    /\ Len(MarketplaceEntries) = 3
    /\ MarketplaceEntries[2].obj["name"] = Str("Three.js WebGL")
    /\ MarketplaceEntries[2].obj["source"] = SourceOf(<<"individual", "threejs-webgl">>)
    /\ MarketplaceEntries[2].obj["tags"]
           = plugins[<<"individual", "threejs-webgl">>].manifest.json.obj["keywords"]
    /\ Len(MarketplaceEntries[2].obj["tags"].arr) = 5
    /\ MarketplaceEntries[3].obj["version"]
           = plugins[<<"bundles", "core-3d-animation">>].manifest.json.obj["version"]

-----------------------------------------------------------------------------
(* Properties of the generated content *)

BundleDir(tree, bundle_name) == tree[<<"bundles", bundle_name>>]

\* the names in the includes array of a bundle's plugin.json
Includes(dir) ==
    {dir.manifest.json.obj["includes"].arr[i].str[1] :
        i \in DOMAIN dir.manifest.json.obj["includes"].arr}

\* C13: after generate_bundle has generated a bundle, skills/ of the bundle
\* holds the directory of every member skill of the bundle definition, so
\* every name in the includes array of its plugin.json has skills/<name>.
C13_EveryIncludedSkillIsCopied ==
    run.script = "generate_bundle" =>
        \A b \in run.generated :
            /\ Range(BUNDLES[b].skills) \subseteq BundleDir(plugins, b).skillDirs
            /\ Includes(BundleDir(plugins, b)) \subseteq BundleDir(plugins, b).skillDirs

\* the number of commands/*.md files of the individual plugins of `members`
RECURSIVE CountCommands(_, _)
CountCommands(tree, members) ==
    IF members = <<>> THEN 0
    ELSE Cardinality(Glob(IndividualPlugin(tree, Head(members)).commands, "md"))
            + CountCommands(tree, Tail(members))

\* C14: generate_bundle on a bundle directory that did not exist leaves as
\* many commands/*.md files in the bundle as the members' individual plugins
\* have together: no two (member, command file) pairs get the same
\* <skill>-<command>.md name.
C14_PrefixedCommandsDoNotCollide ==
    [][\A b \in BundleNames :
          (/\ run'.script = "generate_bundle"
           /\ b \in run'.generated
           /\ ~BundleDir(plugins, b).exists)
          => Cardinality(Glob(BundleDir(plugins', b).commands, "md"))
                = CountCommands(plugins, BUNDLES[b].skills)]_vars

\* the bundle of two members that each have setup.md and help.md
C14_Witness ==
    /\ run.script = "generate_bundle"
    /\ Glob(IndividualPlugin(plugins, "threejs-webgl").commands, "md")
           = {File("setup", "md"), File("help", "md")}
    /\ Glob(IndividualPlugin(plugins, "gsap-scrolltrigger").commands, "md")
           = {File("setup", "md"), File("help", "md")}
    /\ BundleDir(plugins, "core-3d-animation").commands
           = {File("threejs-webgl-setup", "md"), File("threejs-webgl-help", "md"),
              File("gsap-scrolltrigger-setup", "md"), File("gsap-scrolltrigger-help", "md")}

\* the skill has no scripts/ directory, or one that holds no *.py file
NoScripts(skill) == ~skill.scriptsDir \/ \A f \in skill.files : f.ext # "py"

\* C15: a run of generate_plugin that generates a skill with no scripts/
\* directory, or with a scripts/ that holds no *.py file, adds setup.md and
\* help.md to commands/ and adds nothing else to it.
C15_GenericCommandsWithoutScripts ==
    [][\A s \in SkillDirs :
          (/\ run'.script = "generate_plugin"
           /\ s \in run'.generated
           /\ NoScripts(skills[s]))
          => IndividualDir(plugins', s).commands
                = IndividualDir(plugins, s).commands
                     \cup {File("setup", "md"), File("help", "md")}]_vars

\* the plugin of a skill whose scripts/ holds notes.txt and no *.py file
C15_Witness ==
    /\ run.script = "generate_plugin" /\ run.arg = "threejs-webgl" /\ run.exit = 0
    /\ skills["threejs-webgl"].scriptsDir
    /\ skills["threejs-webgl"].files = {File("notes", "txt")}
    /\ IndividualDir(plugins, "threejs-webgl").commands
           = {File("setup", "md"), File("help", "md")}

-----------------------------------------------------------------------------
(* generate_plugin.py on skills of every category *)

\* the skill directories: the categorized skills, and one that
\* SKILL_CATEGORIES does not list
AgentSkillDirs == CategorizedSkills \cup {"new-skill"}

InitAgents ==
    /\ skills \in {sk \in [AgentSkillDirs \cup {"skill-creator", ".system"} ->
                             {Skill(SkillMdUnnamed, FALSE, {}), Skill(NoFile, FALSE, {}),
                              ScriptedSkill({"setup_scene"})}] :
                     /\ sk["threejs-webgl"] = ScriptedSkill({"setup_scene"})
                     /\ sk["new-skill"] # ScriptedSkill({"setup_scene"})
                     /\ \A s \in DOMAIN sk \ {"threejs-webgl", "new-skill"} :
                           sk[s] = Skill(SkillMdUnnamed, FALSE, {})}
    /\ plugins = [k \in ({"individual"} \X AgentSkillDirs) \cup ({"bundles"} \X BundleNames)
                     |-> NoDir]
    /\ rplugins = EmptyTree
    /\ marketplace = NoFile
    /\ run = NoProcess
    /\ fixed = {}
    /\ fx = NoRepair

NextAgents ==
    \/ \E s \in AgentSkillDirs : GeneratePlugin(s)
    \/ GeneratePluginAll

SpecAgents == InitAgents /\ [][NextAgents]_vars

\* the category _generate_agents looks up
CategoryOf(skill_name) ==
    IF skill_name \in DOMAIN SKILL_CATEGORIES
    THEN SKILL_CATEGORIES[skill_name].category ELSE "general"

\* C16: every run of generate_plugin that generates a skill writes one agent
\* file: <skill>-architect.md for the categories 3d-graphics and 2d-graphics,
\* <skill>-choreographer.md for animation, <skill>-pipeline.md for
\* 3d-authoring, <skill>-specialist.md for any other category and for a skill
\* that SKILL_CATEGORIES does not list.
C16_OneAgentFileByCategory ==
    [][\A s \in AgentSkillDirs :
          (run'.script = "generate_plugin" /\ s \in run'.generated) =>
              LET suffix ==
                      CASE CategoryOf(s) \in {"3d-graphics", "2d-graphics"} -> "-architect"
                        [] CategoryOf(s) = "animation" -> "-choreographer"
                        [] CategoryOf(s) = "3d-authoring" -> "-pipeline"
                        [] OTHER -> "-specialist"
              IN IndividualDir(plugins', s).agents
                    = IndividualDir(plugins, s).agents \cup {File(s \o suffix, "md")}]_vars

\* generate_plugin --all over a skill of each kind: the six agent files
C16_Witness ==
    /\ run.script = "generate_plugin" /\ run.arg = "--all"
    /\ run.generated = AgentSkillDirs
    /\ IndividualDir(plugins, "threejs-webgl").agents = {File("threejs-webgl-architect", "md")}
    /\ IndividualDir(plugins, "pixijs-2d").agents = {File("pixijs-2d-architect", "md")}
    /\ IndividualDir(plugins, "gsap-scrolltrigger").agents
           = {File("gsap-scrolltrigger-choreographer", "md")}
    /\ IndividualDir(plugins, "blender-web-pipeline").agents
           = {File("blender-web-pipeline-pipeline", "md")}
    /\ IndividualDir(plugins, "modern-web-design").agents
           = {File("modern-web-design-specialist", "md")}
    /\ IndividualDir(plugins, "new-skill").agents = {File("new-skill-specialist", "md")}

-----------------------------------------------------------------------------
(* Properties of validate_marketplace.py *)

\* the validator went through a marketplace.json whose plugins is an array
ValidatedEntries ==
    /\ run.script = "validate_marketplace" /\ ~run.crashed
    /\ IsJson(marketplace)
    /\ "plugins" \in DOMAIN marketplace.json.obj
    /\ IsList(marketplace.json.obj["plugins"])

\* the error _validate_plugin_entry records for an entry
SourceError(entry) ==
    Msg(NameText(Get(entry.obj, "name", Str("unknown"))), "Source path not found")

\* C17: the validator records "Source path not found" for every entry of
\* plugins whose source does not name an existing path under the plugins
\* root, whatever the form of the source (with or without a leading "./",
\* with a component that begins with "."), and records none for an entry
\* whose source does.
C17_ErrorIffSourceDoesNotResolve ==
    ValidatedEntries =>
        \A i \in DOMAIN MarketplaceEntries :
            LET entry == MarketplaceEntries[i]
            IN (IsDict(entry) /\ "source" \in DOMAIN entry.obj /\ IsStr(entry.obj["source"]))
                  => (SourceError(entry) \in Range(run.errors)
                         <=> ~PluginPathExists(plugins, entry.obj["source"].str))

\* what the validator requires of a plugin directory
ValidPluginDir(k) ==
    /\ plugins[k].claudePlugin
    /\ plugins[k].skillsDir /\ plugins[k].skillDirs # {}
    /\ IsJson(plugins[k].manifest)
    /\ {"name", "version", "description"} \subseteq DOMAIN plugins[k].manifest.json.obj
    /\ plugins[k].manifest.json.obj["name"] = Str(k[2])

\* C18: when validate_marketplace exits 0, every directory under individual/
\* and bundles/ has .claude-plugin/, a skills/ with at least one
\* sub-directory, and a plugin.json that parses, has name, version and
\* description, and whose name is the directory's name.
C18_ExitZeroOnlyForValidPlugins ==
    (run.script = "validate_marketplace" /\ run.exit = 0) =>
        \A k \in ExistingDirs : ValidPluginDir(k)

\* the validator has exited 0 over two individual plugins and a bundle, with
\* warnings for the commands/ and agents/ one of them lacks
C18_Witness ==
    /\ run.script = "validate_marketplace" /\ run.exit = 0
    /\ ExistingDirs = PluginKeys
    /\ ~plugins[<<"individual", "gsap-scrolltrigger">>].commandsDir
    /\ Len(run.warnings) = 2

-----------------------------------------------------------------------------
(* The post-condition of fix_plugin_manifests.fix_plugin_manifest *)

\* the call that has just returned is fix_plugin_manifest of
\* fix_plugin_manifests.py, and it completed
FixCompleted == fx.log # <<>> /\ fx.log[Len(fx.log)] = "fix_plugin_manifests"

\* the manifest the last call read
FxBefore == fx.before.manifest.json.obj

\* the keys the fix removes
LegacyKeys == {"category", "bundle", "includes"}

\* author: an object {name, email} whose name is the former string
AuthorPost(b, a) ==
    ("author" \in DOMAIN b /\ IsStr(b["author"])) =>
        /\ "author" \in DOMAIN a /\ IsDict(a["author"])
        /\ DOMAIN a["author"].obj = {"name", "email"}
        /\ a["author"].obj["name"] = b["author"]

\* the keys whose value the fix changes, as the condition of each `if` of
\* lines 21, 28, 32, 37 and 42 has it
Rewritten(b) ==
    {k \in DOMAIN b \cap {"author"} : IsStr(b[k])}
    \cup {k \in DOMAIN b \cap {"repository"} : IsDict(b[k])}
    \cup {k \in DOMAIN b \cap PathFields : IsStr(b[k]) /\ ~StartsWithDotSlash(b[k].str)}

\* the keys of `keys` keep their value, the legacy keys are gone and no key
\* is new
KeepValue(b, a, keys) ==
    /\ DOMAIN a = DOMAIN b \ LegacyKeys
    /\ \A k \in keys \cap DOMAIN a : a[k] = b[k]

-----------------------------------------------------------------------------
(* fix_agent_command_paths.fix_plugin_manifest, run again *)

\* `changed` stays False on the directory: neither commands nor agents is a
\* string that ends with "/" over a directory with .md files
NothingToChange(dir) ==
    LET m == dir.manifest.json.obj
        md(field) == IF field = "commands"
                     THEN GetMdFiles(dir.commandsDir, dir.commands, "commands")
                     ELSE GetMdFiles(dir.agentsDir, dir.agents, "agents")
    IN \A field \in {"commands", "agents"} \cap DOMAIN m :
          (IsStr(m[field]) /\ EndsWithSlash(m[field].str)) => md(field) = <<>>

\* C20: after fix_agent_command_paths has gone through a plugin directory, a
\* second run over the same commands/ and agents/ finds nothing to change,
\* so it writes nothing, and the directory with its plugin.json is as the
\* first run left it.
C20_SecondRunChangesNothing ==
    (Len(fx.log) >= 2
        /\ fx.log[Len(fx.log) - 1] = "fix_agent_command_paths"
        /\ fx.log[Len(fx.log)] = "fix_agent_command_paths")
    => (NothingToChange(fx.before) /\ fx.dir = fx.before)

\* two runs over a manifest that had "commands/" and "agents/" with .md files
\* in both directories: the first run wrote the arrays, the second nothing
C20_Witness ==
    /\ fx.log = <<"fix_agent_command_paths", "fix_agent_command_paths">>
    /\ {"commands", "agents"} \subseteq DOMAIN fx.orig.manifest.json.obj
    /\ fx.orig.manifest.json.obj["commands"] = Chars(<<"commands", "/">>)
    /\ fx.orig.manifest.json.obj["agents"] = Chars(<<"agents", "/">>)
    /\ fx.orig.commands # {}
    /\ IsList(FxManifest["commands"]) /\ Len(FxManifest["commands"].arr) = 2
    /\ IsList(FxManifest["agents"]) /\ Len(FxManifest["agents"].arr) = 1
    /\ fx.dir = fx.before /\ fx.dir # fx.orig

-----------------------------------------------------------------------------
(* The validator goes on after a defect *)

\* the errors _validate_plugin records for a directory taken alone
ErrorsOf(k) == ValidatePlugin(plugins[k], k[2], Report(<<>>, <<>>, FALSE)).errors

\* the errors of the last run recorded after the pass over marketplace.json
PluginErrors ==
    SubSeq(run.errors,
           Len(ValidateMarketplaceJson(plugins, marketplace,
                                       Report(<<>>, <<>>, FALSE)).errors) + 1,
           Len(run.errors))

C22_MissingCommandsOrAgentsOnlyWarns ==
    (run.script = "validate_marketplace" /\ ~run.crashed) =>
        /\ \A k \in ExistingDirs :
              ValidPluginDir(k) =>
                 /\ \A i \in DOMAIN PluginErrors : PluginErrors[i].who # k[2]
                 /\ ~plugins[k].commandsDir <=>
                       \E i \in DOMAIN run.warnings :
                           run.warnings[i] = Msg(k[2], "No commands directory found")
                 /\ ~plugins[k].agentsDir <=>
                       \E i \in DOMAIN run.warnings :
                           run.warnings[i] = Msg(k[2], "No agents directory found")
        /\ ((\A k \in ExistingDirs : ValidPluginDir(k)) /\ PluginErrors = run.errors)
              => run.exit = 0

\* the first plugin has neither commands/ nor agents/, the second has no
\* commands/: three warnings, in that order, no error, exit code 0
C22_Witness ==
    /\ run.script = "validate_marketplace" /\ run.exit = 0
    /\ ExistingDirs = PluginKeys
    /\ ~plugins[<<"individual", "gsap-scrolltrigger">>].commandsDir
    /\ ~plugins[<<"individual", "gsap-scrolltrigger">>].agentsDir
    /\ ~plugins[<<"individual", "threejs-webgl">>].commandsDir
    /\ plugins[<<"individual", "threejs-webgl">>].agentsDir
    /\ run.errors = <<>>
    /\ run.warnings = <<Msg("gsap-scrolltrigger", "No commands directory found"),
                        Msg("gsap-scrolltrigger", "No agents directory found"),
                        Msg("threejs-webgl", "No commands directory found")>>

-----------------------------------------------------------------------------
(* The generators and the fixers in sequence *)

\* C23: after generate_plugin or generate_bundle has generated a plugin, its
\* plugin.json is the manifest the generator builds from the skill or from
\* the bundle definition, whatever the file held before: author is the
\* string again, repository the object, category is back and the three path
\* fields are the bare directory strings, so nothing a fixer wrote is left.
C23_RegenerationOverwritesTheManifest ==
    LET unfixed(m) ==
            /\ m["author"] = Str("Claude Design Skillstack")
            /\ IsDict(m["repository"])
            /\ "category" \in DOMAIN m
            /\ m["skills"] = Chars(<<"skills", "/">>)
            /\ m["commands"] = Chars(<<"commands", "/">>)
            /\ m["agents"] = Chars(<<"agents", "/">>)
    IN /\ run.script = "generate_plugin" =>
             \A s \in run.generated :
                 /\ IndividualDir(plugins, s).manifest
                       = Json(Obj(PluginManifest(s, LoadSkillMetadata(skills[s]).ok)))
                 /\ unfixed(IndividualDir(plugins, s).manifest.json.obj)
       /\ run.script = "generate_bundle" =>
             \A b \in run.generated :
                 /\ BundleDir(plugins, b).manifest = Json(Obj(BundleManifest(b)))
                 /\ {"bundle", "includes"} \subseteq
                        DOMAIN BundleDir(plugins, b).manifest.json.obj
                 /\ unfixed(BundleDir(plugins, b).manifest.json.obj)

\* generate_plugin has run again on threejs-webgl after fix_plugin_manifests
\* went over its plugin and over the bundle that holds its command: the
\* bundle's manifest is still the fixed one, the plugin's is the generated one
C23_Witness ==
    /\ run.script = "generate_plugin" /\ run.arg = "threejs-webgl" /\ run.exit = 0
    /\ File("threejs-webgl-setup_scene", "md")
           \in BundleDir(plugins, "core-3d-animation").commands
    /\ IsJson(BundleDir(plugins, "core-3d-animation").manifest)
    /\ IsDict(BundleDir(plugins, "core-3d-animation").manifest.json.obj["author"])
    /\ IndividualDir(plugins, "threejs-webgl").manifest.json.obj["author"]
           = Str("Claude Design Skillstack")
    /\ IndividualDir(plugins, "threejs-webgl").manifest.json.obj["commands"]
           = Chars(<<"commands", "/">>)

\* C24: in the marketplace.json generate_marketplace has just written, the
\* entries of the individual plugins come first, in ascending order of their
\* directory names, then those of the bundles, in ascending order of theirs;
\* and the file is what the generator builds from the plugin directories as
\* they are, whatever marketplace.json held before the run.
C24_EntriesInDirectoryOrder ==
    (run.script = "generate_marketplace" /\ run.exit = 0) =>
        LET kind(i) == MarketplaceEntries[i].obj["source"].str[3]
            name(i) == MarketplaceEntries[i].obj["source"].str[5]
            rank(n) == CHOOSE r \in DOMAIN SortedDirNames : SortedDirNames[r] = n
        IN /\ \A i, j \in DOMAIN MarketplaceEntries :
                 i < j => \/ kind(i) = "individual" /\ kind(j) = "bundles"
                          \/ kind(i) = kind(j) /\ rank(name(i)) < rank(name(j))
           /\ marketplace = GenerateMarketplaceFile(plugins).ok

\* both individual plugins, then the bundle, whose name sorts before theirs
C24_Witness ==
    /\ run.script = "generate_marketplace" /\ run.exit = 0
    /\ Len(MarketplaceEntries) = 3
    /\ MarketplaceEntries[1].obj["source"] = SourceOf(<<"individual", "gsap-scrolltrigger">>)
    /\ MarketplaceEntries[2].obj["source"] = SourceOf(<<"individual", "threejs-webgl">>)
    /\ MarketplaceEntries[3].obj["source"] = SourceOf(<<"bundles", "core-3d-animation">>)
    /\ MarketplaceEntries[3].obj["bundle"] = Bool(TRUE)

\* C25: on a plugin.json whose skills, commands and agents are the strings
\* the generators write, whatever commands/ and agents/ hold,
\* fix_plugin_manifest of fix_plugin_manifests followed by fix_plugin_manifest
\* of fix_agent_command_paths leaves the manifest that the two leave when
\* called in the opposite order.
C25_FixersCommute ==
    LET m == fx.orig.manifest.json.obj
        pathsThenManifest == FixManifestFile(FixPathsDir(fx.orig).ok.manifest)
        manifestThenPaths ==
            FixPathsDir([fx.orig EXCEPT !.manifest = FixManifestFile(@).ok])
    IN (/\ fx.orig.exists
        /\ PathFields \subseteq DOMAIN m
        /\ \A field \in PathFields : m[field] = Chars(<<field, "/">>))
       => /\ fx.log = <<"fix_plugin_manifests", "fix_agent_command_paths">> =>
                 (IsOk(pathsThenManifest) /\ fx.dir.manifest = pathsThenManifest.ok)
          /\ fx.log = <<"fix_agent_command_paths", "fix_plugin_manifests">> =>
                 (IsOk(manifestThenPaths) /\ fx.dir = manifestThenPaths.ok)

\* fix_agent_command_paths first, fix_plugin_manifests second, on a manifest
\* with the generators' path strings over two command files and one agent file
C25_Witness ==
    /\ fx.log = <<"fix_agent_command_paths", "fix_plugin_manifests">>
    /\ PathFields \subseteq DOMAIN fx.orig.manifest.json.obj
    /\ \A field \in PathFields :
          fx.orig.manifest.json.obj[field] = Chars(<<field, "/">>)
    /\ fx.orig.commands # {}
    /\ "author" \in DOMAIN fx.orig.manifest.json.obj
    /\ IsStr(fx.orig.manifest.json.obj["author"])
    /\ IsList(FxManifest["commands"]) /\ Len(FxManifest["commands"].arr) = 2
    /\ IsList(FxManifest["agents"])
    /\ FxManifest["skills"] = Chars(<<".", "/", "skills", "/">>)
    /\ IsDict(FxManifest["author"])

\* C26: a run of generate_bundle adds to the bundle no command file and no
\* agent file of a member that has no individual plugin directory when it
\* runs, and it does write the <bundle>-integration agent; a run of
\* generate_plugin leaves every bundle directory as it was.
C26_BundleIsASnapshot ==
    [][LET commandsOf(s) ==
               {File(s \o "-" \o st, "md") :
                   st \in {"setup", "help", "setup_scene", "optimize", "old_command"}}
           agentsOf(s) ==
               {File(s \o "-" \o role, "md") :
                   role \in {"architect", "choreographer", "pipeline", "specialist"}}
       IN /\ run'.script = "generate_bundle" =>
                \A b \in run'.generated :
                    /\ IntegrationAgent(b) \in BundleDir(plugins', b).agents
                    /\ \A s \in Range(BUNDLES[b].skills) :
                          ~IndividualPlugin(plugins, s).exists =>
                             /\ (BundleDir(plugins', b).commands
                                    \ BundleDir(plugins, b).commands) \cap commandsOf(s) = {}
                             /\ (BundleDir(plugins', b).agents
                                    \ BundleDir(plugins, b).agents) \cap agentsOf(s) = {}
          /\ run'.script = "generate_plugin" =>
                \A b \in BundleNames : BundleDir(plugins', b) = BundleDir(plugins, b)]_vars

\* the bundle was generated when no member had a plugin, and generate_plugin
\* has since made the plugin of threejs-webgl: the bundle has no command and
\* only the integration agent
C26_Witness ==
    /\ run.script = "generate_plugin" /\ run.arg = "threejs-webgl" /\ run.exit = 0
    /\ IndividualDir(plugins, "threejs-webgl").commands = {File("setup_scene", "md")}
    /\ IndividualDir(plugins, "threejs-webgl").agents
           = {File("threejs-webgl-architect", "md")}
    /\ BundleDir(plugins, "core-3d-animation").exists
    /\ BundleDir(plugins, "core-3d-animation").commands = {}
    /\ BundleDir(plugins, "core-3d-animation").agents
           = {File("core-3d-animation-integration", "md")}

-----------------------------------------------------------------------------
(* A run of fix_plugin_manifests.py that raises *)

\* C27: a plugin.json on which fix_plugin_manifest raises (it is not JSON, or
\* its repository is an object without url) is left exactly as it was, and a
\* plugin.json that a run changes is changed to the whole fix; when the run
\* raises, the directories listed before the one that raised are fixed and
\* the one that raised and those listed after it are as they were, the
\* bundles coming after all individual plugins.
C27_FixIsAllOrNothing ==
    [][run'.script = "fix_plugin_manifests" =>
          LET hasManifest(k) ==
                  plugins[k].exists /\ plugins[k].claudePlugin
                      /\ FileExists(plugins[k].manifest)
              raises(k) ==
                  /\ hasManifest(k)
                  /\ \/ plugins[k].manifest = BadJson
                     \/ /\ "repository" \in DOMAIN plugins[k].manifest.json.obj
                        /\ IsDict(plugins[k].manifest.json.obj["repository"])
                        /\ "url" \notin
                               DOMAIN plugins[k].manifest.json.obj["repository"].obj
              fixedDir(k) ==
                  IF hasManifest(k)
                  THEN [plugins[k] EXCEPT !.manifest = FixManifestFile(@).ok]
                  ELSE plugins[k]
          IN /\ \A k \in PluginKeys : raises(k) => plugins'[k] = plugins[k]
             /\ \A k \in PluginKeys :
                   plugins'[k] # plugins[k] => plugins'[k] = fixedDir(k)
             /\ run'.crashed <=> \E k \in PluginKeys : raises(k)
             /\ run'.crashed =>
                   \E oi \in Orders(KindKeys(plugins, "individual")),
                      ob \in Orders(KindKeys(plugins, "bundles")) :
                       \E p \in DOMAIN (oi \o ob) :
                           /\ raises((oi \o ob)[p])
                           /\ \A i \in 1..(p - 1) :
                                 /\ ~raises((oi \o ob)[i])
                                 /\ plugins'[(oi \o ob)[i]] = fixedDir((oi \o ob)[i])
                           /\ \A i \in p..Len(oi \o ob) :
                                 plugins'[(oi \o ob)[i]] = plugins[(oi \o ob)[i]]]_vars

\* the run raised on the bundle, whose repository has no url: the bundle's
\* plugin.json still has the string author and the keys category and
\* includes, and the two individual plugins listed before it are fixed
C27_Witness ==
    /\ run.script = "fix_plugin_manifests" /\ run.crashed
    /\ \A s \in SkillDirs :
          /\ IsJson(IndividualDir(plugins, s).manifest)
          /\ IsDict(IndividualDir(plugins, s).manifest.json.obj["author"])
          /\ "category" \notin DOMAIN IndividualDir(plugins, s).manifest.json.obj
    /\ IsJson(BundleDir(plugins, "core-3d-animation").manifest)
    /\ BundleDir(plugins, "core-3d-animation").manifest.json.obj["repository"]
           = Obj([type |-> Str("git")])
    /\ IsStr(BundleDir(plugins, "core-3d-animation").manifest.json.obj["author"])
    /\ {"category", "includes"} \subseteq
           DOMAIN BundleDir(plugins, "core-3d-animation").manifest.json.obj

-----------------------------------------------------------------------------
(* generate_marketplace.py before and after fix_plugin_manifests.py *)

\* C28: an entry of the marketplace.json just generated follows the state of
\* its plugin.json.  After fix_plugin_manifests, every entry is of a fixed
\* manifest: category is "general" for an individual plugin and "bundle" for
\* a bundle, includes is [], author is the {name, email} object.  An entry of
\* a manifest as the generator wrote it has the generator's category, the
\* bundle's member list as includes, and the string author.
C28_EntriesFollowTheFixer ==
    (run.script = "generate_marketplace" /\ run.exit = 0) =>
        \A i \in DOMAIN MarketplaceEntries :
            LET entry == MarketplaceEntries[i].obj
                kind == entry["source"].str[3]
                name == entry["source"].str[5]
                m == plugins[<<kind, name>>].manifest.json.obj
                members == BUNDLES[name].skills
            IN /\ "fix_plugin_manifests" \in fixed => IsDict(m["author"])
               /\ IsDict(m["author"]) =>
                     /\ entry["category"] =
                           IF kind = "individual" THEN Str("general") ELSE Str("bundle")
                     /\ kind = "bundles" => entry["includes"] = Arr(<<>>)
                     /\ IsDict(entry["author"])
                     /\ DOMAIN entry["author"].obj = {"name", "email"}
               /\ IsStr(m["author"]) =>
                     /\ entry["category"] =
                           IF kind = "individual"
                           THEN Str(SKILL_CATEGORIES[name].category)
                           ELSE Str(BUNDLES[name].category)
                     /\ kind = "bundles" =>
                           entry["includes"]
                               = Arr([j \in DOMAIN members |-> Str(members[j])])
                     /\ entry["author"] = Str("Claude Design Skillstack")

\* generate_marketplace over a plugin regenerated after fix_plugin_manifests
\* and a bundle still as the fixer left it
C28_Witness ==
    /\ run.script = "generate_marketplace" /\ run.exit = 0
    /\ Len(MarketplaceEntries) = 2
    /\ MarketplaceEntries[1].obj["name"] = Str("threejs-webgl")
    /\ MarketplaceEntries[1].obj["category"] = Str("3d-graphics")
    /\ IsStr(MarketplaceEntries[1].obj["author"])
    /\ MarketplaceEntries[2].obj["name"] = Str("core-3d-animation")
    /\ MarketplaceEntries[2].obj["includes"] = Arr(<<>>)
    /\ IsDict(MarketplaceEntries[2].obj["author"])

-----------------------------------------------------------------------------
(* generate_plugin.py --all *)

\* C29: generate_plugin --all attempts the directories of the skills root
\* other than skill-creator and those whose name starts with ".", each once
\* and in ascending order of name, and every one of them that has a SKILL.md
\* with frontmatter ends with a complete plugin directory (manifest, the
\* skill's copy, commands, an agent), whatever failed for the others.
C29_AllGeneratesEveryValidSkill ==
    (run.script = "generate_plugin" /\ run.arg = "--all") =>
        LET rank(n) == CHOOSE r \in DOMAIN SortedDirNames : SortedDirNames[r] = n
        IN /\ Range(run.attempted)
                 = {s \in DOMAIN skills : skills[s].exists} \ {"skill-creator", ".system"}
           /\ \A i, j \in DOMAIN run.attempted :
                 i < j => rank(run.attempted[i]) < rank(run.attempted[j])
           /\ \A s \in Range(run.attempted) :
                 ~NoFrontmatter(skills[s]) =>
                    /\ s \in run.generated
                    /\ IndividualDir(plugins, s).exists
                    /\ IsJson(IndividualDir(plugins, s).manifest)
                    /\ s \in IndividualDir(plugins, s).skillDirs
                    /\ Glob(IndividualDir(plugins, s).commands, "md") # {}
                    /\ Glob(IndividualDir(plugins, s).agents, "md") # {}

\* the skills root holds skill-creator, .system and new-skill, which has no
\* SKILL.md: new-skill fails, the two skills that sort after it are generated
C29_Witness ==
    /\ run.script = "generate_plugin" /\ run.arg = "--all"
    /\ skills["skill-creator"].exists /\ skills[".system"].exists
    /\ skills["new-skill"].skillMd = NoFile
    /\ run.attempted = <<"blender-web-pipeline", "gsap-scrolltrigger",
                         "modern-web-design", "new-skill", "pixijs-2d", "threejs-webgl">>
    /\ run.generated = AgentSkillDirs \ {"new-skill"}
    /\ ~IndividualDir(plugins, "new-skill").exists
    /\ IndividualDir(plugins, "pixijs-2d").exists
    /\ IndividualDir(plugins, "threejs-webgl").exists

-----------------------------------------------------------------------------
(* The whole pipeline *)

\* C30: when every skill has a SKILL.md with frontmatter, and the plugin of
\* every skill, the bundle and a marketplace.json listing them all have been
\* generated, validate_marketplace records no error and exits 0, however
\* often either fixer ran after the generators; and no run of a fixer turns a
\* tree that validates with exit code 0 into one that does not.
C30_PipelineValidates ==
    /\ [](( /\ run.script = "validate_marketplace"
            /\ \A s \in SkillDirs : ~NoFrontmatter(skills[s])
            /\ ExistingDirs = PluginKeys
            /\ IsJson(marketplace)
            /\ Len(MarketplaceEntries) = Cardinality(PluginKeys))
           => (run.errors = <<>> /\ run.exit = 0 /\ ~run.crashed))
    /\ [][(/\ run'.script \in {"fix_plugin_manifests", "fix_agent_command_paths"}
           /\ ValidateExitCode(Validate(plugins, marketplace)) = 0)
          => ValidateExitCode(Validate(plugins', marketplace')) = 0]_vars

\* generate_plugin --all, generate_bundle --all, generate_marketplace, both
\* fixers, validate_marketplace: no error, exit code 0
C30_Witness ==
    /\ run.script = "validate_marketplace" /\ run.exit = 0 /\ run.errors = <<>>
    /\ fixed = {"fix_plugin_manifests", "fix_agent_command_paths"}
    /\ ExistingDirs = PluginKeys
    /\ BundleDir(plugins, "core-3d-animation").commands
           = {File("threejs-webgl-setup_scene", "md"),
              File("gsap-scrolltrigger-setup", "md"),
              File("gsap-scrolltrigger-help", "md")}
    /\ IsJson(marketplace) /\ Len(MarketplaceEntries) = 3
    /\ \A k \in PluginKeys : IsDict(plugins[k].manifest.json.obj["author"])
    /\ IsStr(MarketplaceEntries[1].obj["author"])

=============================================================================
